---- MODULE Spec2Model ----
(***************************************************************************)
(* Model of serverless-event-orchestrator: the dispatcher's trigger        *)
(* detection, route resolution, issuer validation and middleware pipeline  *)
(* (src/src/dispatcher.ts), the guards and initTenantContext               *)
(* (src/src/middleware/crm-guard.ts, src/unnamed/part_005) and the         *)
(* AsyncLocalStorage-backed TenantContext (src/src/tenant/TenantContext.ts)*)
(*                                                                         *)
(* Asynchrony.  JavaScript runs every synchronous segment of an async      *)
(* function to completion; one action of the model is one such segment     *)
(* (from a call or a resumption up to the next await).  AsyncLocalStorage  *)
(* keeps its store on the executing async resource: a resumption after an  *)
(* await runs with the store that was current when the await was reached,  *)
(* enterWith() replaces the store of the segment that is executing (and so *)
(* of the caller whose synchronous segment it still is), and run() gives   *)
(* the callback a store of its own and restores the caller's on return.    *)
(***************************************************************************)
EXTENDS Naturals, Sequences, FiniteSets, TLC

VARIABLES
  cfg,        \* OrchestratorConfig.globalMiddleware, SegmentConfig.middleware, RouteConfig.middleware
  hosted,     \* the dispatchEvent calls the host makes in this process
  req,        \* per call: the raw event, reduced to what the pipeline reads
  pc,         \* per call: position of dispatchEvent's async chain
  stage,      \* per call: the middleware list executeMiddleware is running
  idx,        \* per call: index of the middleware being awaited
  evT,        \* per call: context.tenantInfo of the current NormalizedEvent
  pending,    \* per call: settlement of the awaited middleware promise
  hostStore,  \* AsyncLocalStorage store of the host's (caller's) execution context
  dStore,     \* per call: store dispatchEvent's continuation resumes with
  mStore,     \* per call: store executeMiddleware's continuation resumes with
  hStore,     \* per call: store the handler's continuation resumes with
  seen,       \* per call: values the handler read through TenantContext.currentOptional()
  log,        \* per call: middleware / handler invocations, in order
  result,     \* per call: how the promise returned by dispatchEvent settled
  runTenant,  \* per scope: the tenant handed to TenantContext.run()
  script,     \* per scope: what the callback does between its suspension points
  spc,        \* per scope: next statement of the callback
  phase,      \* per scope: idle, body (callback suspended), nested (awaiting a nested call), done
  sStore,     \* per scope: store the callback's continuation resumes with
  nStore,     \* per scope: store the nested function's continuation resumes with
  bound,      \* per scope: the tenant the scope bound last (by run() or set())
  reads,      \* per scope: every TenantContext.current() made in the scope
  event,      \* the raw event of call 1, reduced to what detection and routing read
  routes,     \* DispatchRoutes: the route tables handed to dispatchEvent
  userPools,  \* OrchestratorConfig.userPools: expected issuer per segment
  match,      \* what dispatchEvent resolved for call 1 (RouteMatch, normalized event)
  handlerResult, \* what the promise of the invoked handler fulfills with
  env,        \* process.env, reduced to the CORS_* settings
  autoExtractIdentity \* OrchestratorConfig.autoExtractIdentity

\* State of the dispatches.
dvars == <<cfg, hosted, req, pc, stage, idx, evT, pending, dStore, mStore,
           hStore, seen, log, result>>

\* State of the TenantContext.run() scopes.
svars == <<runTenant, script, spc, phase, sStore, nStore, bound, reads>>

\* Inputs and outcome of detection and routing.
fvars == <<event, routes, userPools, match, handlerResult, env, autoExtractIdentity>>

vars == <<dvars, svars, hostStore, fvars>>

----------------------------------------------------------------------------
(* Bounds *)

\* Longest total number of middleware (global + segment + route) in one configuration.
MaxMw == 2

\* Same, for the configurations of the two-call specification.
MaxConcMw == 2

\* Longest callback of a TenantContext.run() scope, in statements.
MaxOps == 2

Requests == {1, 2}

Scopes == {1, 2}

----------------------------------------------------------------------------
(* Data *)

\* JavaScript values.  A string is the sequence of its characters, where
\* "tA", "ORG", "PLATFORM_ADMIN" and the like stand for their letters; the
\* values that are no strings are sequences no string equals.
Undefined == <<"#undefined">>

True == <<"#true">>

False == <<"#false">>

\* !!v, for the values above.
Truthy(v) == v \notin {<<>>, Undefined, False}

\* An object with string keys: obj[key], undefined for a key it lacks.
Get(obj, key) == IF key \in DOMAIN obj THEN obj[key] ELSE Undefined

\* a ?? b
Coalesce(a, b) == IF a # Undefined THEN a ELSE b

\* a || b
Or(a, b) == IF Truthy(a) THEN a ELSE b

TenantIds == {<<"tA">>, <<"tB">>}

\* A TenantInfo, reduced to tenantId, tenantType, userId, countryCode, hasCRM.
TenantInfo(tenantId, tenantType, userId, countryCode, hasCRM) ==
  [tenantId |-> tenantId, tenantType |-> tenantType, userId |-> userId,
   countryCode |-> countryCode, hasCRM |-> hasCRM]

\* The tenants of organisations of one user and country, CRM on or off.
TenantInfos ==
  {TenantInfo(id, <<"ORG">>, <<"u1">>, <<"CO">>, crm) : id \in TenantIds, crm \in {True, False}}

\* undefined: no TenantInfo / no store.
NoTenant == TenantInfo(Undefined, Undefined, Undefined, Undefined, Undefined)

TenantOpt == TenantInfos \cup {NoTenant}

\* JWT claims and headers: objects with string keys and string values.
NoClaims == [k \in {} |-> <<>>]

\* The claims of a token issued for tenant id, with custom:hasCRM as given
\* (Undefined: the claim is not there).
TenantClaims(id, crm) ==
  [k \in {"custom:tenantId", "custom:tenantType", "custom:userId", "custom:countryCode"}
          \cup (IF crm # Undefined THEN {"custom:hasCRM"} ELSE {}) |->
     CASE k = "custom:tenantId"    -> id
       [] k = "custom:tenantType"  -> <<"ORG">>
       [] k = "custom:userId"      -> <<"u1">>
       [] k = "custom:countryCode" -> <<"CO">>
       [] OTHER                    -> crm]

\* tenantInfoToHeaders: the x-tenant-* headers another function sends for id.
TenantHeaders(id) ==
  [k \in {"x-tenant-id", "x-tenant-type", "x-user-id", "x-country-code"} |->
     CASE k = "x-tenant-id"   -> id
       [] k = "x-tenant-type" -> <<"ORG">>
       [] k = "x-user-id"     -> <<"u1">>
       [] OTHER               -> <<"CO">>]

\* context.identity: undefined, or an IdentityContext with its issuer,
\* groups (an array, or undefined) and claims.
NoIdentity == [present |-> FALSE, issuer |-> <<>>, groups |-> Undefined, claims |-> NoClaims]

Identity(issuer, groups, claims) ==
  [present |-> TRUE, issuer |-> issuer, groups |-> groups, claims |-> claims]

\* The object holding the pairs <<key, value>> whose value is defined.
ObjectOf(pairs) ==
  [k \in {p[1] : p \in {q \in pairs : q[2] # Undefined}} |->
     (CHOOSE p \in pairs : p[1] = k)[2]]

\* A property that may hold an object: authorizer.claims, authorizer.lambda.
NoObject == [present |-> FALSE, map |-> NoClaims]

Object(map) == [present |-> TRUE, map |-> map]

\* requestContext.authorizer: undefined, or an object with its properties
\* claims, jwt.claims and lambda (objects, if there) and its other
\* properties, which are strings.
NoAuthorizer ==
  [present |-> FALSE, claims |-> NoObject, jwt |-> NoObject, lambda |-> NoObject,
   flat |-> NoClaims]

Authorizer(claims, jwt, lambda, flat) ==
  [present |-> TRUE, claims |-> claims, jwt |-> jwt, lambda |-> lambda, flat |-> flat]

\* What a Cognito user pool authorizer of a REST API hands over.
Cognito(claims) == Authorizer(Object(claims), NoObject, NoObject, NoClaims)

IdentityKeys == {"sub", "userId", "user_id", "email", "cognito:username", "iss", "aud"}

hasIdentityProperties(obj) == \E key \in IdentityKeys : key \in DOMAIN obj

\* Variant: the flat payload is tried before authorizer.lambda.
extractClaimsFlatThird(authorizer) ==
  IF ~authorizer.present THEN NoObject
  ELSE IF authorizer.claims.present THEN authorizer.claims
  ELSE IF authorizer.jwt.present THEN authorizer.jwt
  ELSE IF hasIdentityProperties(authorizer.flat) THEN Object(authorizer.flat)
  ELSE IF authorizer.lambda.present THEN authorizer.lambda
  ELSE NoObject

\* The claims object of the authorizer, NoObject for undefined. When the
\* authorizer itself is returned, its string properties stand for it.
extractClaims(authorizer) ==
  IF ~authorizer.present THEN NoObject
  ELSE IF authorizer.claims.present THEN authorizer.claims
  ELSE IF authorizer.jwt.present THEN authorizer.jwt
  ELSE IF authorizer.lambda.present THEN authorizer.lambda
  ELSE IF hasIdentityProperties(authorizer.flat) THEN Object(authorizer.flat)
  ELSE NoObject

\* The groups claim being an array, or missing.
parseGroups(groups) == IF ~Truthy(groups) THEN <<>> ELSE groups

IdentityOf(claims) ==
  IF ~claims.present THEN NoIdentity
  ELSE Identity(Get(claims.map, "iss"),
                parseGroups(Or(Get(claims.map, "cognito:groups"), Get(claims.map, "groups"))),
                claims.map)

\* A bearer token is the sequence of its pieces: the prefix 'Bearer ', dots,
\* and the runs of characters between them.
Bearer == "Bearer "

Dot == "."

\* Buffer.from(base64, 'base64').toString('utf8') and JSON.parse of it, on
\* the payloads used: "eyA" spells the claims of a token of issuer /A,
\* "eyN" those of a token without issuer; no other payload spells JSON.
ParsePayload(payload) ==
  IF payload = <<"eyA">> THEN Object(ObjectOf({<<"iss", <<"/", "A">>>>, <<"sub", <<"u1">>>>}))
  ELSE IF payload = <<"eyN">> THEN Object(ObjectOf({<<"sub", <<"u1">>>>}))
  ELSE NoObject

\* The middle one of the three parts of token.split('.'), where dots are
\* the positions of its two dots.
MiddlePart(token, dots) ==
  SubSeq(token, (CHOOSE d \in dots : \A e \in dots : d <= e) + 1,
                (CHOOSE d \in dots : \A e \in dots : e <= d) - 1)

\* The claims of the token's payload, unverified; undefined unless the
\* token has three parts and the middle one decodes to JSON.
decodeJwtFromHeader(authHeader) ==
  LET token == IF authHeader # <<>> /\ Head(authHeader) = Bearer
                 THEN Tail(authHeader) ELSE authHeader
      dots == {k \in DOMAIN token : token[k] = Dot}
  IN  IF Cardinality(dots) # 2 THEN NoObject
      ELSE ParsePayload(MiddlePart(token, dots))

\* event?.headers?.authorization || event?.headers?.Authorization
authHeaderOf(headers) == Or(Get(headers, "authorization"), Get(headers, "Authorization"))

\* Variant: the Authorization header is decoded whatever autoExtract says.
FallbackClaimsAlways(claims, headers, autoExtract) ==
  IF ~claims.present
    THEN IF Truthy(authHeaderOf(headers)) THEN decodeJwtFromHeader(authHeaderOf(headers))
         ELSE NoObject
  ELSE claims

\* `if (!claims && autoExtract) { ... claims = decodeJwtFromHeader(authHeader) }`
FallbackClaims(claims, headers, autoExtract) ==
  IF ~claims.present /\ Truthy(autoExtract)
    THEN IF Truthy(authHeaderOf(headers)) THEN decodeJwtFromHeader(authHeaderOf(headers))
         ELSE NoObject
  ELSE claims

\* extractIdentity(event, autoExtract), of the raw HTTP event e.
extractIdentity(e, autoExtract) ==
  IdentityOf(FallbackClaims(extractClaims(e.authorizer), e.headers, autoExtract))

\* The canonical request, reduced to what the middleware read.
Request(trigger, identity, headers) ==
  [trigger |-> trigger, identity |-> identity, headers |-> headers]

Triggers == {"apigateway", "eventbridge", "sqs", "lambda"}

\* Middleware the repository ships, plus "user": any other middleware that
\* lets the request through without touching it (README's logging middleware).
MwKinds == {"init", "tguard", "crm", "user"}

\* HTTP requests of a user or a platform administrator whose token carries
\* no tenant or one of TenantIds, with CRM enabled or the claim missing, and
\* whose headers propagate no tenant or one of TenantIds.
HttpRequests ==
  {Request("apigateway", Identity(<<>>, groups, claims), headers) :
     groups \in {<<>>, <<"PLATFORM_ADMIN">>},
     claims \in {NoClaims} \cup
                {TenantClaims(id, crm) : id \in TenantIds, crm \in {<<"true">>, Undefined}},
     headers \in {NoClaims} \cup {TenantHeaders(id) : id \in TenantIds}}

OtherRequests == {Request(t, NoIdentity, NoClaims) : t \in Triggers \ {"apigateway"}}

AllRequests == HttpRequests \cup OtherRequests

SeqsUpTo(S, n) == UNION {[1..k -> S] : k \in 0..n}

Configs(n) ==
  {c \in [globalMw : SeqsUpTo(MwKinds, n), segMw : SeqsUpTo(MwKinds, n),
          routeMw : SeqsUpTo(MwKinds, n)] :
     Len(c.globalMw) + Len(c.segMw) + Len(c.routeMw) <= n}

NoPending == [status |-> "none", evT |-> NoTenant, code |-> "none"]

\* response.headers: missing, or a map of header names to values.
NoHeaders == [present |-> FALSE, map |-> [n \in {} |-> ""]]

Headers(map) == [present |-> TRUE, map |-> map]

\* A response: how it came about, its statusCode and body code, whether it
\* is an object at all, and its headers.
NoResult ==
  [how |-> "pending", statusCode |-> 0, code |-> "none", isObject |-> FALSE,
   headers |-> NoHeaders]

\* createStandardResponse: { statusCode, body, headers: { 'Content-Type': ... } }
createStandardResponse(statusCode, code) ==
  [how |-> "returned", statusCode |-> statusCode, code |-> code, isObject |-> TRUE,
   headers |-> Headers([n \in {"Content-Type"} |-> "application/json"])]

----------------------------------------------------------------------------
(* TenantContext over AsyncLocalStorage: `store` is the store of the        *)
(* execution context in which the call is made.                             *)

NotInitialized == [NoTenant EXCEPT !.tenantId = <<"TenantContext not initialized">>]

\* AsyncLocalStorage.getStore(), as TenantContext.currentOptional() returns it.
currentOptional(store) == store

isActive(store) == currentOptional(store) # NoTenant

\* Fail-closed read: the tenant, or the not-initialized error.
current(store) == IF store = NoTenant THEN NotInitialized ELSE store

\* enterWith(tenant): the store of the executing context after the call.
set(store, tenant) == tenant

----------------------------------------------------------------------------
(* Middleware.  Each is an async function without an await of its own: its  *)
(* body runs inside the caller's synchronous segment.  The value is the     *)
(* settlement of the promise it returns and the store it leaves behind.     *)

Fulfilled(ev, store) == [status |-> "ok", evT |-> ev, code |-> "none", store |-> store]

Thrown(code, store) == [status |-> "reject", evT |-> NoTenant, code |-> code, store |-> store]

\* The promise the middleware returned never settles.
NeverSettles(store) == [status |-> "pending", evT |-> NoTenant, code |-> "none", store |-> store]

\* new Error(message): an object that is no response.
Error(message) ==
  [how |-> "rejected", statusCode |-> 0, code |-> message, isObject |-> TRUE,
   headers |-> NoHeaders]

ErrorMessages == {"Error: middleware failed", "Error: handler failed"}

\* Variant: an error is replaced by an internal-error response.
ThrownValueShaped(code) ==
  IF code \in ErrorMessages THEN [createStandardResponse(500, "INTERNAL_ERROR") EXCEPT !.how = "rejected"]
  ELSE [createStandardResponse(403, code) EXCEPT !.how = "rejected"]

\* What a rejected middleware promise carries: the error thrown, or the
\* forbiddenResponse(message, code) a guard threw.
ThrownValue(code) ==
  IF code \in ErrorMessages THEN Error(code)
  ELSE [createStandardResponse(403, code) EXCEPT !.how = "rejected"]

\* groups.includes(group)
Includes(groups, group) == \E i \in DOMAIN groups : groups[i] = group

hasAnyGroup(identity, allowedGroups) ==
  IF ~identity.present \/ identity.groups = Undefined \/ Len(identity.groups) = 0 THEN FALSE
  ELSE \E group \in allowedGroups : Includes(identity.groups, group)

\* CROSS_TENANT_ROLES, CRM_BYPASS_ROLES
BypassRoles == {"PLATFORM_ADMIN"}

\* hasAnyGroup(identity, ['PLATFORM_ADMIN'])
hasBypassRole(rq) == hasAnyGroup(rq.identity, BypassRoles)

\* The text without its leading and trailing blanks.
Trim(t) ==
  LET inked == {k \in DOMAIN t : t[k] # " "}
  IN  IF inked = {} THEN <<>>
      ELSE SubSeq(t, CHOOSE k \in inked : \A j \in inked : k <= j,
                     CHOOSE k \in inked : \A j \in inked : j <= k)

isTenantType(value) == value = <<"ORG">> \/ value = <<"PERSON">>

\* Variant: claims[key] ?? claims[`custom:${key}`]
getClaimPlainFirst(claims, prefixed, key) == Coalesce(Get(claims, key), Get(claims, prefixed))

\* claims[`custom:${key}`] ?? claims[key]; prefixed is `custom:${key}`.
getClaim(claims, prefixed, key) == Coalesce(Get(claims, prefixed), Get(claims, key))

\* The object tenantInfoFromClaims or tenantInfoFromHeaders builds from the
\* four required values, undefined if one is missing or the type unknown.
BuildTenantInfo(tenantId, tenantType, userId, countryCode, hasCRM) ==
  IF ~Truthy(tenantId) \/ ~Truthy(tenantType) \/ ~Truthy(userId) \/ ~Truthy(countryCode)
    THEN NoTenant
  ELSE IF ~isTenantType(tenantType) THEN NoTenant
  ELSE TenantInfo(tenantId, tenantType, userId, countryCode, hasCRM)

tenantInfoFromClaims(claims) ==
  BuildTenantInfo(getClaim(claims, "custom:tenantId", "tenantId"),
                  getClaim(claims, "custom:tenantType", "tenantType"),
                  Or(getClaim(claims, "custom:userId", "userId"), Get(claims, "sub")),
                  getClaim(claims, "custom:countryCode", "countryCode"),
                  getClaim(claims, "custom:hasCRM", "hasCRM"))

\* headers[key] || headers[key.toLowerCase()], the keys being lower case.
tenantInfoFromHeaders(headers) ==
  BuildTenantInfo(Get(headers, "x-tenant-id"), Get(headers, "x-tenant-type"),
                  Get(headers, "x-user-id"), Get(headers, "x-country-code"), Undefined)

\* The four headers tenantInfoToHeaders always sets (the profile ids, which
\* TenantInfo is reduced of here, add two more when they are there).
tenantInfoToHeaders(tenant) ==
  [k \in {"x-tenant-id", "x-tenant-type", "x-user-id", "x-country-code"} |->
     CASE k = "x-tenant-id"   -> tenant.tenantId
       [] k = "x-tenant-type" -> tenant.tenantType
       [] k = "x-user-id"     -> tenant.userId
       [] OTHER               -> tenant.countryCode]

\* Variant: the headers are consulted before the claims.
ResolveTenantHeadersFirst(fromClaims, fromHeaders) ==
  IF fromHeaders # NoTenant THEN fromHeaders ELSE fromClaims

\* Strategy 1, then strategy 2 `if (!tenantInfo && event.payload.headers)`.
ResolveTenant(fromClaims, fromHeaders) ==
  IF fromClaims # NoTenant THEN fromClaims ELSE fromHeaders

\* Variant: the tenant is bound in TenantContext, the event is not enriched.
BindTenantStoreOnly(tenantInfo, ev, store) ==
  IF tenantInfo # NoTenant
    THEN Fulfilled(ev, set(store, tenantInfo))
    ELSE Fulfilled(ev, store)

\* What initTenantContext does with the tenant it resolved, if any.
BindTenant(tenantInfo, ev, store) ==
  IF tenantInfo # NoTenant
    THEN Fulfilled(tenantInfo, set(store, tenantInfo))
    ELSE Fulfilled(ev, store)

initTenantContext(rq, ev, store) ==
  BindTenant(ResolveTenant(IF rq.identity.present
                             THEN tenantInfoFromClaims(rq.identity.claims)
                             ELSE NoTenant,
                           tenantInfoFromHeaders(rq.headers)),
             ev, store)

\* Variant: the tenant is looked at before the role.
tenantGuardTenantFirst(rq, ev, store) ==
  IF ev = NoTenant \/ ~Truthy(ev.tenantId) \/ Trim(ev.tenantId) = <<>>
    THEN Thrown("TENANT_CONTEXT_MISSING", store)
  ELSE Fulfilled(ev, store)

\* Variant: no role bypasses the guard, and only a missing tenant fails it.
tenantGuardNoBypass(rq, ev, store) ==
  IF ev = NoTenant THEN Thrown("TENANT_CONTEXT_MISSING", store)
  ELSE Fulfilled(ev, store)

tenantGuard(rq, ev, store) ==
  IF hasBypassRole(rq) THEN Fulfilled(ev, store)
  ELSE IF ev = NoTenant \/ ~Truthy(ev.tenantId) \/ Trim(ev.tenantId) = <<>>
    THEN Thrown("TENANT_CONTEXT_MISSING", store)
  ELSE Fulfilled(ev, store)

\* Variant: the guard lets a request without tenant through.
crmGuardOpen(rq, ev, store) ==
  IF ev # NoTenant /\ ~Truthy(ev.hasCRM) /\ ~hasBypassRole(rq)
    THEN Thrown("CRM_ACCESS_DENIED", store)
  ELSE Fulfilled(ev, store)

crmGuard(rq, ev, store) ==
  IF hasBypassRole(rq) THEN Fulfilled(ev, store)
  ELSE IF ev = NoTenant \/ ~Truthy(ev.hasCRM) THEN Thrown("CRM_ACCESS_DENIED", store)
  ELSE Fulfilled(ev, store)

userMiddleware(rq, ev, store) == Fulfilled(ev, store)

\* A middleware of the host's that throws an error.
failingMiddleware(rq, ev, store) == Thrown("Error: middleware failed", store)

\* A middleware of the host's whose promise never settles.
hangingMiddleware(rq, ev, store) == NeverSettles(store)

\* mw(currentEvent)
RunMw(kind, rq, ev, store) ==
  CASE kind = "init"   -> initTenantContext(rq, ev, store)
    [] kind = "tguard" -> tenantGuard(rq, ev, store)
    [] kind = "crm"    -> crmGuard(rq, ev, store)
    [] kind = "fails"  -> failingMiddleware(rq, ev, store)
    [] kind = "hangs"  -> hangingMiddleware(rq, ev, store)
    [] OTHER           -> userMiddleware(rq, ev, store)

----------------------------------------------------------------------------
(* dispatchEvent and executeMiddleware, one synchronous segment at a time.  *)

StartEv(st, i) == [e |-> "start", st |-> st, i |-> i]

EndEv(st, i) == [e |-> "end", st |-> st, i |-> i]

RejectEv(st, i) == [e |-> "reject", st |-> st, i |-> i]

HandlerEv == [e |-> "handler", st |-> "handler", i |-> 0]

\* The middleware list dispatchEvent hands to executeMiddleware for a stage.
StageList(c, st) ==
  IF st = "global" THEN c.globalMw
  ELSE IF st = "segment" THEN c.segMw
  ELSE <<>>

\* Variant: the segment list is run before the global one.
StageAfterSegmentFirst(st) ==
  CASE st = "start"   -> "segment"
    [] st = "segment" -> "global"
    [] OTHER          -> "handler"

\* Variant: the global list is never run.
StageAfterSkipsGlobal(st) ==
  CASE st = "start" -> "segment"
    [] OTHER        -> "handler"

\* Order of the statements of dispatchEvent after issuer validation.
StageAfter(st) ==
  CASE st = "start"  -> "global"
    [] st = "global" -> "segment"
    [] OTHER         -> "handler"

\* `if (list?.length)`: a stage with an empty list is skipped.
RECURSIVE NextRunnable(_, _)
NextRunnable(c, st) ==
  LET n == StageAfter(st)
  IN  IF n = "handler" \/ Len(StageList(c, n)) > 0 THEN n ELSE NextRunnable(c, n)

\* routeMatch.handler(normalized) / handler(normalized): the handler's first
\* segment runs in the calling context and reads the tenant store.
InvokeHandler(ev, store) ==
  [pc |-> "handler", stage |-> "handler", idx |-> 0, evT |-> ev,
   pending |-> NoPending, store |-> store, events |-> <<HandlerEv>>,
   read |-> {currentOptional(store)}, result |-> NoResult]

\* executeMiddleware(list, event) up to its first await: mw[1] is called.
StartMiddleware(c, rq, st, ev, store) ==
  LET out == RunMw(StageList(c, st)[1], rq, ev, store)
  IN  [pc |-> "mw", stage |-> st, idx |-> 1, evT |-> ev,
       pending |-> [status |-> out.status, evT |-> out.evT, code |-> out.code],
       store |-> out.store, events |-> <<StartEv(st, 1)>>, read |-> {},
       result |-> NoResult]

\* dispatchEvent from the statement after stage `from`, in a context whose
\* store is `store`, up to its next await.
Dispatch(c, rq, from, ev, store) ==
  LET st == NextRunnable(c, from)
  IN  IF st = "handler" THEN InvokeHandler(ev, store)
      ELSE StartMiddleware(c, rq, st, ev, store)

\* Variant: executeMiddleware catches the rejection and returns normally.
PropagateSwallowed(st, i, ev, p, store) ==
  [pc |-> "stageDone", stage |-> st, idx |-> i, evT |-> ev,
   pending |-> NoPending, store |-> store, events |-> <<RejectEv(st, i)>>,
   read |-> {}, result |-> NoResult]

\* A rejection of the awaited middleware: nothing catches it, in
\* executeMiddleware or in dispatchEvent.
Propagate(st, i, ev, p, store) ==
  [pc |-> "rejected", stage |-> st, idx |-> i, evT |-> ev,
   pending |-> NoPending, store |-> store, events |-> <<RejectEv(st, i)>>,
   read |-> {},
   result |-> ThrownValue(p.code)]

\* Variant: the loop awaits the same middleware promise again and again.
ResumeMiddlewareSpins(c, rq, st, i, ev, p, store) ==
  [pc |-> "mw", stage |-> st, idx |-> i, evT |-> ev, pending |-> p, store |-> store,
   events |-> <<>>, read |-> {}, result |-> NoResult]

\* The loop of executeMiddleware resumed after `await mw(currentEvent)`.
ResumeMiddleware(c, rq, st, i, ev, p, store) ==
  IF p.status = "reject" THEN Propagate(st, i, ev, p, store)
  ELSE IF i < Len(StageList(c, st))
    THEN LET out == RunMw(StageList(c, st)[i + 1], rq, p.evT, store)
         IN  [pc |-> "mw", stage |-> st, idx |-> i + 1, evT |-> p.evT,
              pending |-> [status |-> out.status, evT |-> out.evT, code |-> out.code],
              store |-> out.store,
              events |-> <<EndEv(st, i), StartEv(st, i + 1)>>, read |-> {},
              result |-> NoResult]
    ELSE [pc |-> "stageDone", stage |-> st, idx |-> i, evT |-> p.evT,
          pending |-> NoPending, store |-> store, events |-> <<EndEv(st, i)>>,
          read |-> {}, result |-> NoResult]

\* successResponse(): what the handlers return unless stated otherwise.
HandlerResponse == createStandardResponse(200, "SUCCESS")

OriginHeader == "Access-Control-Allow-Origin"

\* The three headers applyCorsToResponse sets.
CorsNames == {OriginHeader, "Access-Control-Allow-Headers", "Access-Control-Allow-Methods"}

\* The fallback of each CORS_* setting ('Content-Type,Authorization,...' and
\* 'GET,POST,...' abbreviated; '600' is the preflight's Max-Age).
CorsDefault(name) ==
  CASE name = OriginHeader -> "*"
    [] name = "Access-Control-Allow-Headers" -> "Content-Type,..."
    [] name = "Access-Control-Allow-Methods" -> "GET,..."
    [] OTHER -> "600"

\* process.env.CORS_... || default: an unset or empty setting is the default.
CorsValue(name) == IF env[name] # "" THEN env[name] ELSE CorsDefault(name)

\* Variant: { ...existingHeaders, 'Access-Control-Allow-Origin': ..., ... }
MergeCorsOver(existing) ==
  [n \in CorsNames \cup DOMAIN existing |->
     IF n \in CorsNames THEN CorsValue(n) ELSE existing[n]]

\* { 'Access-Control-Allow-Origin': ..., ..., ...existingHeaders }
MergeCors(existing) ==
  [n \in CorsNames \cup DOMAIN existing |->
     IF n \in DOMAIN existing THEN existing[n] ELSE CorsValue(n)]

applyCorsToResponse(response) ==
  IF ~response.isObject THEN response
  ELSE [response EXCEPT !.headers = Headers(MergeCors(response.headers.map))]

\* What dispatchEvent returns once the handler's promise has fulfilled.
Returned(rq, response) ==
  IF rq.trigger = "apigateway" THEN applyCorsToResponse(response) ELSE response

----------------------------------------------------------------------------
(* Paths and patterns.  A string is the sequence of its characters; "{x}"   *)
(* stands for the three characters of the placeholder of parameter x.       *)

\* Longest concrete path of a request, in characters.
MaxPathLen == 3

Slash == "/"

PathChars == {Slash, "a"}

Placeholders == {"{x}"}

PatternChars == PathChars \cup Placeholders

\* Concrete paths; the empty string is JavaScript's falsy (absent) path.
Paths == SeqsUpTo(PathChars, MaxPathLen)

\* Registered patterns and API Gateway resource templates: one or two
\* characters or placeholders.
Patterns == {<<c>> : c \in PatternChars} \cup {<<c, d>> : c, d \in PatternChars}

DropLast(str) == SubSeq(str, 1, Len(str) - 1)

\* Leading slash ensured, one trailing slash removed, empty becomes "/".
normalizePath(path) ==
  IF Len(path) = 0 THEN <<Slash>>
  ELSE LET normalized == IF path[1] = Slash THEN path ELSE <<Slash>> \o path
       IN  IF Len(normalized) > 1 /\ normalized[Len(normalized)] = Slash
             THEN DropLast(normalized)
             ELSE normalized

\* Result of RegExp.exec: null, or the captured groups in order.
NoCaptures == [ok |-> FALSE, groups |-> <<>>]

Captured(groups) == [ok |-> TRUE, groups |-> groups]

\* A way the anchored regular expression of patternToRegex(pattern) matches
\* str: ends[i] is where the part matched by pattern[i] ends.  A literal
\* character matches itself, a placeholder matches ([^/]+).
Matches(pattern, str) ==
  {ends \in [DOMAIN pattern -> 1..Len(str)] :
     /\ Len(pattern) > 0 => ends[Len(pattern)] = Len(str)
     /\ \A i \in DOMAIN pattern :
          LET from == IF i = 1 THEN 1 ELSE ends[i - 1] + 1
          IN  IF pattern[i] \in Placeholders
                THEN /\ from <= ends[i]
                     /\ \A k \in from..ends[i] : str[k] # Slash
                ELSE /\ ends[i] = from
                     /\ str[from] = pattern[i]}

\* The match the engine reports: every group takes as much as it can, an
\* earlier group before a later one.
Greedy(ms) ==
  CHOOSE m \in ms :
    \A o \in ms :
      o = m \/ \E i \in DOMAIN m : m[i] > o[i] /\ \A j \in 1..(i - 1) : m[j] = o[j]

\* The groups of the reported match among ms, null if there is none.
Groups(pattern, str, ms) ==
  IF ms = {} THEN NoCaptures
  ELSE LET ends == Greedy(ms)
           first(i) == IF i = 1 THEN 1 ELSE ends[i - 1] + 1
           holders == {i \in DOMAIN pattern : pattern[i] \in Placeholders}
           nth(n) == CHOOSE i \in holders : Cardinality({j \in holders : j <= i}) = n
       IN  Captured([n \in 1..Cardinality(holders) |->
                       SubSeq(str, first(nth(n)), ends[nth(n)])])

\* path.match(regex): null, or the captured groups in order.
Exec(pattern, str) ==
  IF Len(pattern) = 0
    THEN IF Len(str) = 0 THEN Captured(<<>>) ELSE NoCaptures
    ELSE Groups(pattern, str, Matches(pattern, str))

\* (\w+) of a placeholder.
NameOf(placeholder) == IF placeholder = "{x}" THEN "x" ELSE "y"

\* paramNames of patternToRegex: the parameters of the pattern, in order.
paramNames(pattern) ==
  LET holders == SelectSeq(pattern, LAMBDA c : c \in Placeholders)
  IN  [i \in 1..Len(holders) |-> NameOf(holders[i])]

\* matchPath's null.
NoParams == [ok |-> FALSE, params |-> <<>>]

\* params[name] = match[index + 1], a later placeholder of the same name
\* overwriting an earlier one.
ZipParams(names, groups) ==
  [n \in {names[i] : i \in 1..Len(names)} |->
     groups[CHOOSE i \in 1..Len(names) :
              names[i] = n /\ \A j \in 1..Len(names) : names[j] = n => j <= i]]

\* The params object built from a match.
ParamsOf(pattern, m) ==
  IF ~m.ok THEN NoParams
  ELSE [ok |-> TRUE, params |-> ZipParams(paramNames(pattern), m.groups)]

\* Variant: the regular expression is not anchored at its end, the pattern
\* matches the longest prefix of the path it can.
matchPathPrefix(pattern, path) ==
  LET ks == {k \in 0..Len(path) : Exec(pattern, SubSeq(path, 1, k)).ok}
  IN  IF ks = {} THEN NoParams
      ELSE ParamsOf(pattern, Exec(pattern, SubSeq(path, 1, CHOOSE k \in ks : \A j \in ks : j <= k)))

matchPath(pattern, path) == ParamsOf(pattern, Exec(pattern, path))

----------------------------------------------------------------------------
(* Route tables, raw events and route resolution *)

\* RouteSegment, in the order findRouteInSegmentsWithActualPath probes it.
Segments == <<"public", "private", "backoffice", "internal">>

SegmentNames == {Segments[i] : i \in DOMAIN Segments}

\* HttpMethod, as far as the model registers routes.
Methods == {"get", "post", "options"}

toLowerCase(m) ==
  CASE m = "GET"     -> "get"
    [] m = "POST"    -> "post"
    [] m = "OPTIONS" -> "options"
    [] OTHER         -> m

\* An HttpRouter: per verb, the registered patterns in declaration order
\* (the keys of the object, which Object.entries walks in that order).
EmptyRouter == [m \in Methods |-> <<>>]

Registers(methodRoutes, key) == \E i \in DOMAIN methodRoutes : methodRoutes[i] = key

\* A segment of a segmented table: absent, a plain HttpRouter, or a
\* SegmentConfig {routes, middleware}.
AbsentSegment ==
  [present |-> FALSE, isConfig |-> FALSE, routes |-> EmptyRouter, middleware |-> <<>>]

PlainSegment(router) ==
  [present |-> TRUE, isConfig |-> FALSE, routes |-> router, middleware |-> <<>>]

ConfigSegment(router, mw) ==
  [present |-> TRUE, isConfig |-> TRUE, routes |-> router, middleware |-> mw]

\* routes.apigateway: absent, or an object with verb keys (flat) and/or
\* segment keys (segs).
NoApi ==
  [present |-> FALSE, flat |-> EmptyRouter, segs |-> [g \in SegmentNames |-> AbsentSegment]]

FlatApi(router) ==
  [present |-> TRUE, flat |-> router, segs |-> [g \in SegmentNames |-> AbsentSegment]]

SegmentedApi(segs) == [present |-> TRUE, flat |-> EmptyRouter, segs |-> segs]

\* A Record<string, string>.
EmptyMap == [n \in {} |-> <<>>]

\* Variant: { ...extracted, ...upstream }
SpreadUpstreamWins(upstream, extracted) ==
  [n \in DOMAIN upstream \cup DOMAIN extracted |->
     IF n \in DOMAIN upstream THEN upstream[n] ELSE extracted[n]]

\* { ...upstream, ...extracted }
Spread(upstream, extracted) ==
  [n \in DOMAIN upstream \cup DOMAIN extracted |->
     IF n \in DOMAIN extracted THEN extracted[n] ELSE upstream[n]]

\* event.pathParameters: null, or the map API Gateway extracted.
NoPathParameters == [present |-> FALSE, map |-> EmptyMap]

\* A handler is named by the table, verb and key it is registered under.
NoHandler == [table |-> "none", method |-> "none", key |-> <<>>]

HandlerAt(table, method, key) == [table |-> table, method |-> method, key |-> key]

\* A string a record may lack: record.body, record.eventSourceARN.
NoText == [present |-> FALSE, text |-> <<>>]

Text(t) == [present |-> TRUE, text |-> t]

\* A record of event.Records, of a queue or of another source.
Record(eventSource, arn, body) ==
  [eventSource |-> eventSource, eventSourceARN |-> arn, body |-> body]

SqsRecord(arn, body) == Record("aws:sqs", arn, body)

\* What the optional chaining on a missing Records[0] reads.
NoRecord == Record("", NoText, NoText)

\* Variant: the last record of the batch is the one looked at.
LastRecord(records) == IF records = <<>> THEN NoRecord ELSE records[Len(records)]

\* event.Records[0]
FirstRecord(records) == IF records = <<>> THEN NoRecord ELSE records[1]

\* Variant: markers tested in the order HTTP, event-bus, queue, direct.
detectEventTypeHttpFirst(e) ==
  IF e.requestContext /\ e.httpMethod # "" THEN "apigateway"
  ELSE IF e.source = "EVENT_BRIDGE" THEN "eventbridge"
  ELSE IF FirstRecord(e.Records).eventSource = "aws:sqs" THEN "sqs"
  ELSE IF e.awsRequestId THEN "lambda"
  ELSE "unknown"

detectEventType(e) ==
  IF e.source = "EVENT_BRIDGE" THEN "eventbridge"
  ELSE IF e.requestContext /\ e.httpMethod # "" THEN "apigateway"
  ELSE IF FirstRecord(e.Records).eventSource = "aws:sqs" THEN "sqs"
  ELSE IF e.awsRequestId THEN "lambda"
  ELSE "unknown"

isSegmentedRouter(api) == \E g \in SegmentNames : api.segs[g].present

getRouterFromSegment(segment) == segment.routes

getMiddlewareFromSegment(segment) ==
  IF segment.present /\ segment.isConfig THEN segment.middleware ELSE <<>>

\* findRouteInRouterWithActualPath's null.
NoRoute == [found |-> FALSE, key |-> <<>>, params |-> EmptyMap]

\* Variant: no lookup by the routePattern, declaration order alone decides.
PickRouteByOrder(methodRoutes, normalizedPattern, exact, tries) ==
  LET hits == {i \in DOMAIN methodRoutes : tries[i].ok}
  IN  IF hits # {}
        THEN LET i == CHOOSE h \in hits : \A k \in hits : h <= k
             IN  [found |-> TRUE, key |-> methodRoutes[i], params |-> tries[i].params]
        ELSE NoRoute

\* The two steps of the lookup, given matchPath's result for the normalized
\* routePattern (exact) and for each registered pattern (tries): first the
\* key equal to the normalized routePattern, whatever the actual path; then
\* the first registered pattern, in declaration order, that matches the
\* normalized actual path.
PickRoute(methodRoutes, normalizedPattern, exact, tries) ==
  LET hits == {i \in DOMAIN methodRoutes : tries[i].ok}
  IN  IF Registers(methodRoutes, normalizedPattern)
        THEN [found |-> TRUE, key |-> normalizedPattern,
              params |-> IF exact.ok THEN exact.params ELSE EmptyMap]
      ELSE IF hits # {}
        THEN LET i == CHOOSE h \in hits : \A k \in hits : h <= k
             IN  [found |-> TRUE, key |-> methodRoutes[i], params |-> tries[i].params]
      ELSE NoRoute

\* The lookup in the routes of one verb.
FindInMethod(methodRoutes, normalizedPattern, normalizedActualPath) ==
  PickRoute(methodRoutes, normalizedPattern,
            matchPath(normalizedPattern, normalizedActualPath),
            [i \in DOMAIN methodRoutes |-> matchPath(methodRoutes[i], normalizedActualPath)])

findRouteInRouterWithActualPath(present, router, method, routePattern, actualPath) ==
  IF ~present \/ method \notin DOMAIN router THEN NoRoute
  ELSE FindInMethod(router[method], normalizePath(routePattern), normalizePath(actualPath))

\* RouteMatch | null.
NoRouteMatch ==
  [found |-> FALSE, handler |-> NoHandler, params |-> EmptyMap, segment |-> "none",
   middleware |-> <<>>]

\* Variant: the last segment with a match wins.
LastProbed(hits) == CHOOSE h \in hits : \A k \in hits : k <= h

\* The loop returns at the first segment, in probing order, with a match.
FirstProbed(hits) == CHOOSE h \in hits : \A k \in hits : h <= k

\* The RouteMatch built from the results of probing each segment.
PickSegment(api, method, probes) ==
  LET hits == {i \in DOMAIN Segments : probes[i].found}
  IN  IF hits = {} THEN NoRouteMatch
      ELSE LET i == FirstProbed(hits)
           IN  [found |-> TRUE,
                handler |-> HandlerAt(Segments[i], method, probes[i].key),
                params |-> probes[i].params,
                segment |-> Segments[i],
                middleware |-> getMiddlewareFromSegment(api.segs[Segments[i]])]

findRouteInSegmentsWithActualPath(api, method, routePattern, actualPath) ==
  PickSegment(api, method,
    [i \in DOMAIN Segments |->
       findRouteInRouterWithActualPath(api.segs[Segments[i]].present,
         getRouterFromSegment(api.segs[Segments[i]]), method, routePattern, actualPath)])

\* The RouteMatch of a flat table.
FlatMatch(method, res) ==
  IF res.found
    THEN [found |-> TRUE, handler |-> HandlerAt("flat", method, res.key),
          params |-> res.params, segment |-> "public", middleware |-> <<>>]
    ELSE NoRouteMatch

\* dispatchEvent's `let routeMatch`: a flat table is treated as public and
\* has no segment middleware.
ResolveRoute(api, method, routePattern, actualPath) ==
  IF isSegmentedRouter(api)
    THEN findRouteInSegmentsWithActualPath(api, method, routePattern, actualPath)
    ELSE FlatMatch(method,
           findRouteInRouterWithActualPath(TRUE, api.flat, method, routePattern, actualPath))

----------------------------------------------------------------------------
(* Actions *)

\* The part of a segment's effect that is the same wherever it ran.
Apply(r, d) ==
  /\ pc' = [pc EXCEPT ![r] = d.pc]
  /\ stage' = [stage EXCEPT ![r] = d.stage]
  /\ idx' = [idx EXCEPT ![r] = d.idx]
  /\ evT' = [evT EXCEPT ![r] = d.evT]
  /\ pending' = [pending EXCEPT ![r] = d.pending]
  /\ log' = [log EXCEPT ![r] = @ \o d.events]
  /\ seen' = [seen EXCEPT ![r] = @ \cup d.read]
  /\ result' = [result EXCEPT ![r] = d.result]
  /\ mStore' = [mStore EXCEPT ![r] = d.store]
  /\ hStore' = [hStore EXCEPT ![r] = d.store]

\* The host calls dispatchEvent(event, routes, config): the segment runs in
\* the host's own context, up to dispatchEvent's first await.
Call(r) ==
  /\ r \in hosted
  /\ pc[r] = "idle"
  /\ LET d == IF req[r].trigger = "apigateway"
                THEN Dispatch(cfg, req[r], "start", NoTenant, hostStore)
                ELSE InvokeHandler(NoTenant, hostStore)
     IN  /\ Apply(r, d)
         /\ hostStore' = d.store
         /\ dStore' = [dStore EXCEPT ![r] = d.store]
  /\ UNCHANGED <<cfg, hosted, req, svars, fvars>>

\* executeMiddleware resumes after `await mw(currentEvent)`.
MwResume(r) ==
  /\ pc[r] = "mw"
  /\ pending[r].status # "pending"
  /\ Apply(r, ResumeMiddleware(cfg, req[r], stage[r], idx[r], evT[r], pending[r], mStore[r]))
  /\ UNCHANGED <<cfg, hosted, req, hostStore, dStore, svars, fvars>>

\* dispatchEvent resumes after `await executeMiddleware(...)`.
StageDone(r) ==
  /\ pc[r] = "stageDone"
  /\ LET d == Dispatch(cfg, req[r], stage[r], evT[r], dStore[r])
     IN  /\ Apply(r, d)
         /\ dStore' = [dStore EXCEPT ![r] = d.store]
  /\ UNCHANGED <<cfg, hosted, req, hostStore, svars, fvars>>

\* The handler resumes after an await of its own, reads the tenant store
\* again and returns its response.
HandlerResume(r) ==
  /\ pc[r] = "handler"
  /\ pc' = [pc EXCEPT ![r] = "handlerDone"]
  /\ seen' = [seen EXCEPT ![r] = @ \cup {currentOptional(hStore[r])}]
  /\ UNCHANGED <<cfg, hosted, req, stage, idx, evT, pending, hostStore, dStore,
                 mStore, hStore, log, result, svars, fvars>>

\* dispatchEvent resumes after `await routeMatch.handler(normalized)` (or its
\* promise adopts the handler's) once the handler's promise has settled, and
\* settles: it returns, or the await throws what the handler rejected with.
Settle(r) ==
  /\ pc[r] = "handlerDone"
  /\ handlerResult.how # "pending"
  /\ pc' = [pc EXCEPT ![r] = IF handlerResult.how = "rejected" THEN "rejected" ELSE "returned"]
  /\ result' = [result EXCEPT ![r] = IF handlerResult.how = "rejected" THEN handlerResult
                                     ELSE Returned(req[r], handlerResult)]
  /\ UNCHANGED <<cfg, hosted, req, stage, idx, evT, pending, hostStore, dStore,
                 mStore, hStore, seen, log, svars, fvars>>

\* A caller other than dispatchEvent (a test, a pipeline of the host's own)
\* calls the exported middleware cfg.globalMw[1] with an event whose
\* context.tenantInfo is evT[r]: the body runs within the caller's segment.
MwCall(r) ==
  /\ r \in hosted
  /\ pc[r] = "idle"
  /\ LET out == RunMw(cfg.globalMw[1], req[r], evT[r], hostStore)
     IN  /\ pending' = [pending EXCEPT ![r] = [status |-> out.status, evT |-> out.evT,
                                                code |-> out.code]]
         /\ hostStore' = out.store
         /\ mStore' = [mStore EXCEPT ![r] = out.store]
  /\ pc' = [pc EXCEPT ![r] = "called"]
  /\ log' = [log EXCEPT ![r] = @ \o <<StartEv("global", 1)>>]
  /\ UNCHANGED <<cfg, hosted, req, stage, idx, evT, dStore, hStore, seen, result,
                 svars, fvars>>

\* The caller resumes after `await mw(event)`: with the event the middleware
\* returned, or with the response it threw.
MwSettle(r) ==
  /\ pc[r] = "called"
  /\ pending[r].status # "pending"
  /\ IF pending[r].status = "ok"
       THEN /\ pc' = [pc EXCEPT ![r] = "returned"]
            /\ evT' = [evT EXCEPT ![r] = pending[r].evT]
            /\ log' = [log EXCEPT ![r] = @ \o <<EndEv("global", 1)>>]
            /\ UNCHANGED result
       ELSE /\ pc' = [pc EXCEPT ![r] = "rejected"]
            /\ result' = [result EXCEPT ![r] = ThrownValue(pending[r].code)]
            /\ log' = [log EXCEPT ![r] = @ \o <<RejectEv("global", 1)>>]
            /\ UNCHANGED evT
  /\ pending' = [pending EXCEPT ![r] = NoPending]
  /\ UNCHANGED <<cfg, hosted, req, stage, idx, hostStore, dStore, mStore, hStore, seen,
                 svars, fvars>>

\* One direct call of a middleware.
NextMw == \E r \in Requests : MwCall(r) \/ MwSettle(r)

\* Function 1, whose tenant is evT[1], invokes function 2 and sends the
\* tenant as headers of the request.
SendTenant ==
  /\ pc[1] = "idle"
  /\ evT[1] # NoTenant
  /\ req' = [req EXCEPT ![2].headers = tenantInfoToHeaders(evT[1])]
  /\ pc' = [pc EXCEPT ![1] = "called"]
  /\ UNCHANGED <<cfg, hosted, stage, idx, evT, pending, hostStore, dStore, mStore, hStore,
                 seen, result, log, svars, fvars>>

\* Function 2 reads the tenant back from the headers it received.
ReceiveTenant ==
  /\ pc[1] = "called"
  /\ pc[2] = "idle"
  /\ evT' = [evT EXCEPT ![2] = tenantInfoFromHeaders(req[2].headers)]
  /\ pc' = [pc EXCEPT ![2] = "returned"]
  /\ UNCHANGED <<cfg, hosted, req, stage, idx, pending, hostStore, dStore, mStore, hStore,
                 seen, result, log, svars, fvars>>

NextPropagate == SendTenant \/ ReceiveTenant

\* A caller other than dispatchEvent calls the exported extractIdentity
\* with the raw event and keeps what it returns.
ExtractCall(r) ==
  /\ r \in hosted
  /\ pc[r] = "idle"
  /\ req' = [req EXCEPT ![r].identity = extractIdentity(event, False)]
  /\ pc' = [pc EXCEPT ![r] = "returned"]
  /\ UNCHANGED <<cfg, hosted, stage, idx, evT, pending, hostStore, dStore, mStore, hStore,
                 seen, result, log, svars, fvars>>

NextExtract == \E r \in Requests : ExtractCall(r)

----------------------------------------------------------------------------
(* Issuer validation *)

\* Longest issuer claim, in characters.
MaxIssuerLen == 2

IssuerChars == {Slash, "A"}

\* claims.iss; the empty string is a missing issuer.
Issuers == SeqsUpTo(IssuerChars, MaxIssuerLen)

Authorizers == {NoAuthorizer} \cup {Cognito(ObjectOf({<<"iss", iss>>})) : iss \in Issuers}

\* A user pool id; the empty string is a segment without configured pool.
PoolA == <<"A">>

PoolOpt == {<<>>, PoolA}

\* issuer.split('/') and its last part: what follows the last slash.
extractUserPoolId(issuer) ==
  LET slashes == {i \in DOMAIN issuer : issuer[i] = Slash}
  IN  IF slashes = {} THEN issuer
      ELSE SubSeq(issuer, (CHOOSE i \in slashes : \A j \in slashes : j <= i) + 1,
                  Len(issuer))

validateIssuer(identity, expectedUserPoolId) ==
  IF ~identity.present \/ ~Truthy(identity.issuer) THEN FALSE
  ELSE extractUserPoolId(identity.issuer) = expectedUserPoolId

\* Variant: an expected issuer configured for any segment is enforced.
validateSegmentUserPoolAny(identity, segment, pools) ==
  IF segment = "public" THEN TRUE
  ELSE IF \A g \in SegmentNames : pools[g] = <<>> THEN TRUE
  ELSE validateIssuer(identity, PoolA)

\* Variant: nothing is validated.
validateSegmentUserPoolNever(identity, segment, pools) == TRUE

validateSegmentUserPool(identity, segment, pools) ==
  IF segment = "public" THEN TRUE
  ELSE IF pools[segment] = <<>> THEN TRUE
  ELSE validateIssuer(identity, pools[segment])

----------------------------------------------------------------------------
(* dispatchEvent from its entry to its first await or its return *)

\* event.detail: absent, or the payload with its operationName ("" if none).
NoDetail == [present |-> FALSE, operationName |-> "", data |-> "none"]

\* What dispatchEvent resolved: the detected type, how it went on, and the
\* RouteMatch and normalized event it built (body: event-bus events only).
NoOutcome ==
  [type |-> "none", outcome |-> "none", handler |-> NoHandler, segment |-> "none",
   middleware |-> <<>>, params |-> EmptyMap, pathParameters |-> EmptyMap,
   body |-> NoDetail]

Outcome(type, outcome) == [NoOutcome EXCEPT !.type = type, !.outcome = outcome]

PreflightResponse ==
  [how |-> "returned", statusCode |-> 204, code |-> "none", isObject |-> TRUE,
   headers |-> Headers([n \in CorsNames \cup {"Access-Control-Max-Age"} |-> CorsValue(n)])]

notFoundResponse == createStandardResponse(404, "NOT_FOUND")

forbiddenResponse == createStandardResponse(403, "FORBIDDEN")

badRequestResponse == createStandardResponse(400, "BAD_REQUEST")

\* { statusCode: 404, body: '... handler not found' }
HandlerNotFound ==
  [how |-> "returned", statusCode |-> 404, code |-> "handler not found", isObject |-> TRUE,
   headers |-> NoHeaders]

\* A return statement before any middleware or handler is called.
ReturnEarly(response, store) ==
  [pc |-> "returned", stage |-> "start", idx |-> 0, evT |-> NoTenant,
   pending |-> NoPending, store |-> store, events |-> <<>>, read |-> {},
   result |-> response]

\* What the first segment of dispatchEvent leaves: the resolution, the
\* middleware lists the rest of the call works with, and the segment's effect.
Entry(m, lists, step) == [match |-> m, lists |-> lists, step |-> step]

\* Variant: OPTIONS is routed like any other verb.
IsPreflightNever(method) == FALSE

IsPreflight(method) == method = "options"

\* Variant: the call goes on to the handler although nothing matched.
RouteNotFoundInvokes(store) == InvokeHandler(NoTenant, store)

\* applyCorsToResponse(config.responses?.notFound?.() ?? notFoundResponse(...)),
\* no override configured.
RouteNotFound(store) == ReturnEarly(applyCorsToResponse(notFoundResponse), store)

\* The API Gateway branch from the resolution of the route on.
dispatchResolved(e, pools, c, rq, store, routeMatch) ==
  LET params == Spread(IF e.pathParameters.present THEN e.pathParameters.map ELSE EmptyMap,
                       routeMatch.params)
      lists == [globalMw |-> c.globalMw, segMw |-> routeMatch.middleware, routeMw |-> <<>>]
      resolved == [NoOutcome EXCEPT !.type = "apigateway",
                                    !.handler = routeMatch.handler,
                                    !.segment = routeMatch.segment,
                                    !.middleware = routeMatch.middleware,
                                    !.params = params,
                                    !.pathParameters = params]
  IN  IF ~routeMatch.found
        THEN Entry(Outcome("apigateway", "notFound"), c, RouteNotFound(store))
      ELSE IF ~validateSegmentUserPool(extractIdentity(e, autoExtractIdentity), routeMatch.segment, pools)
        THEN Entry([resolved EXCEPT !.outcome = "forbidden"], c,
                   ReturnEarly(applyCorsToResponse(forbiddenResponse), store))
      ELSE Entry([resolved EXCEPT !.outcome = "dispatched"], lists,
                 Dispatch(lists, rq, "start", NoTenant, store))

\* The API Gateway branch.
dispatchApiGateway(e, rts, pools, c, rq, store) ==
  LET method == toLowerCase(e.httpMethod)
      routePattern == IF e.resource # <<>> THEN e.resource ELSE e.path
      actualPath == IF e.path # <<>> THEN e.path ELSE e.resource
  IN  IF IsPreflight(method)
        THEN Entry(Outcome("apigateway", "preflight"), c, ReturnEarly(PreflightResponse, store))
      ELSE IF ~rts.apigateway.present
        THEN Entry(Outcome("apigateway", "notFound"), c, RouteNotFound(store))
      ELSE dispatchResolved(e, pools, c, rq, store,
             ResolveRoute(rts.apigateway, method, routePattern, actualPath))

\* A table of handlers by name (routes.eventbridge, routes.sqs, routes.lambda):
\* absent, or an object with the handlers registered under `keys`.
NoTable == [present |-> FALSE, keys |-> {}]

Table(keys) == [present |-> TRUE, keys |-> keys]

\* Names every object answers to through Object.prototype, reduced to one.
InheritedKeys == {"toString"}

NoneFound == [kind |-> "none", key |-> ""]

\* table?.[key]: an own property, else one inherited from Object.prototype,
\* else undefined.
Lookup(table, key) ==
  IF ~table.present THEN NoneFound
  ELSE IF key \in table.keys THEN [kind |-> "own", key |-> key]
  ELSE IF key \in InheritedKeys THEN [kind |-> "inherited", key |-> key]
  ELSE NoneFound

\* first ?? routes.<trigger>?.default
OrDefault(first, table) == IF first.kind # "none" THEN first ELSE Lookup(table, "default")

\* operationName ? routes.eventbridge?.[operationName] ?? default : default
eventbridgeHandler(table, operationName) ==
  IF operationName # "" THEN OrDefault(Lookup(table, operationName), table)
  ELSE Lookup(table, "default")

\* routes.sqs?.[queueName] ?? routes.sqs?.default
sqsHandler(table, queueName) == OrDefault(Lookup(table, queueName), table)

Colon == ":"

\* The characters of a queue ARN; "toString" stands for its letters.
ArnChars == {Colon, "q", "toString"}

MaxArnLen == 2

Arns == {NoText} \cup {Text(t) : t \in SeqsUpTo(ArnChars, MaxArnLen)}

RECURSIVE Join(_)
\* The string a sequence of characters spells.
Join(str) == IF str = <<>> THEN "" ELSE Head(str) \o Join(Tail(str))

\* str.split(':').pop(): what follows the last colon, all of str without one.
LastPiece(str) ==
  LET colons == {k \in DOMAIN str : str[k] = Colon}
  IN  IF colons = {} THEN str
      ELSE SubSeq(str, (CHOOSE k \in colons : \A j \in colons : j <= k) + 1, Len(str))

\* queueArn?.split(':').pop(), as the property key it is used as.
queueName(arn) == IF arn.present THEN Join(LastPiece(arn.text)) ELSE "undefined"

\* The characters of a record body: braces, a digit, a blank.
BodyChars == {"{", "}", "1", " "}

MaxBodyLen == 2

Bodies == {NoText} \cup {Text(t) : t \in SeqsUpTo(BodyChars, MaxBodyLen)}

\* The JSON values of such bodies: a number or the empty object; and the
\* object { rawBody: record.body }.
JsonNumber(n) == [kind |-> "number", number |-> n, hasRawBody |-> FALSE, rawBody |-> NoText]

JsonObject == [kind |-> "object", number |-> 0, hasRawBody |-> FALSE, rawBody |-> NoText]

RawBody(body) == [kind |-> "object", number |-> 0, hasRawBody |-> TRUE, rawBody |-> body]

RECURSIVE Decimal(_)
\* The number a sequence of digits 1 denotes.
Decimal(digits) ==
  IF digits = <<>> THEN 0 ELSE 10 * Decimal(SubSeq(digits, 1, Len(digits) - 1)) + 1

\* JSON.parse(text) on the trimmed text: a value, or a SyntaxError.
ParseTrimmed(t) ==
  IF t # <<>> /\ \A k \in DOMAIN t : t[k] = "1"
    THEN [ok |-> TRUE, value |-> JsonNumber(Decimal(t))]
  ELSE IF Len(t) >= 2 /\ t[1] = "{" /\ t[Len(t)] = "}"
          /\ \A k \in 2..(Len(t) - 1) : t[k] = " "
    THEN [ok |-> TRUE, value |-> JsonObject]
  ELSE [ok |-> FALSE, value |-> JsonObject]

\* JSON.parse(record.body); JSON.parse(undefined) throws as well.
JSONParse(body) ==
  IF body.present THEN ParseTrimmed(Trim(body.text)) ELSE [ok |-> FALSE, value |-> JsonObject]

\* try { body = JSON.parse(record.body) } catch { body = { rawBody: record.body } }
sqsBody(parsed, body) == IF parsed.ok THEN parsed.value ELSE RawBody(body)

\* What Object.prototype.toString returns when called as a handler: no
\* response object, and no registered handler has run.
InheritedResult ==
  [how |-> "returned", statusCode |-> 0, code |-> "[object Undefined]", isObject |-> FALSE,
   headers |-> NoHeaders]

\* The branches of the triggers without table of patterns: what was looked
\* up, if anything, is called at once with the normalized event.
dispatchKeyed(type, h, body, c, store) ==
  IF h.kind = "none"
    THEN Entry(Outcome(type, "handlerNotFound"), c, ReturnEarly(HandlerNotFound, store))
  ELSE IF h.kind = "inherited"
    THEN Entry([NoOutcome EXCEPT !.type = type, !.outcome = "inherited",
                                 !.handler = HandlerAt("Object.prototype", "none", <<h.key>>),
                                 !.segment = "internal", !.body = body],
               c, ReturnEarly(InheritedResult, store))
  ELSE Entry([NoOutcome EXCEPT !.type = type, !.outcome = "dispatched",
                               !.handler = HandlerAt(type, "none", <<h.key>>),
                               !.segment = "internal", !.body = body],
             c, InvokeHandler(NoTenant, store))

dispatchEvent(e, rts, pools, c, rq, store) ==
  LET type == detectEventType(e)
  IN  CASE type = "apigateway"  -> dispatchApiGateway(e, rts, pools, c, rq, store)
        [] type = "eventbridge" ->
             dispatchKeyed(type,
               eventbridgeHandler(rts.eventbridge,
                 IF e.detail.present THEN e.detail.operationName ELSE ""),
               e.detail, c, store)
        [] type = "sqs"         ->
             dispatchKeyed(type,
               sqsHandler(rts.sqs, queueName(FirstRecord(e.Records).eventSourceARN)),
               sqsBody(JSONParse(FirstRecord(e.Records).body), FirstRecord(e.Records).body),
               c, store)
        [] type = "lambda"      ->
             dispatchKeyed(type, Lookup(rts.lambda, "default"), NoDetail, c, store)
        [] OTHER                ->
             Entry(Outcome(type, "badRequest"), c, ReturnEarly(badRequestResponse, store))

\* The effect of dispatchEvent's first segment.
Enter(r, en) ==
  /\ Apply(r, en.step)
  /\ hostStore' = en.step.store
  /\ dStore' = [dStore EXCEPT ![r] = en.step.store]
  /\ cfg' = en.lists
  /\ match' = en.match

\* The host calls dispatchEvent(event, routes, config) with a raw event: the
\* segment detects the trigger, resolves the route or handler and either
\* returns or runs on to dispatchEvent's first await.
Receive(r) ==
  /\ r \in hosted
  /\ pc[r] = "idle"
  /\ Enter(r, dispatchEvent(event, routes, userPools, cfg, req[r], hostStore))
  /\ UNCHANGED <<hosted, req, svars, event, routes, userPools, handlerResult, env,
                 autoExtractIdentity>>

Next ==
  \E r \in Requests :
    \/ Call(r)
    \/ MwResume(r)
    \/ StageDone(r)
    \/ HandlerResume(r)
    \/ Settle(r)

\* The dispatch with a raw event: entry, then the pipeline.
NextRoute ==
  \E r \in Requests :
    \/ Receive(r)
    \/ MwResume(r)
    \/ StageDone(r)
    \/ HandlerResume(r)
    \/ Settle(r)

\* The same for configurations without middleware.
NextMatch ==
  \E r \in Requests :
    \/ Receive(r)
    \/ HandlerResume(r)
    \/ Settle(r)

NoEvent ==
  [source |-> "other", requestContext |-> FALSE, httpMethod |-> "", Records |-> <<>>,
   awsRequestId |-> FALSE, resource |-> <<>>, path |-> <<>>,
   pathParameters |-> NoPathParameters, authorizer |-> NoAuthorizer, headers |-> NoClaims,
   detail |-> NoDetail]

NoRoutes == [apigateway |-> NoApi, eventbridge |-> NoTable, sqs |-> NoTable, lambda |-> NoTable]

NoPools == [g \in SegmentNames |-> <<>>]

\* Specifications of the pipeline alone take the request as resolved.
NoEnv == [n \in CorsNames \cup {"Access-Control-Max-Age"} |-> ""]

\* No CORS_* setting is made and the configuration has no autoExtractIdentity.
PlainConfig ==
  /\ env = NoEnv
  /\ autoExtractIdentity = Undefined

\* The handler answers successResponse(), under such a configuration.
PlainHandler ==
  /\ handlerResult = HandlerResponse
  /\ PlainConfig

NoRouting ==
  /\ PlainHandler
  /\ event = NoEvent
  /\ routes = NoRoutes
  /\ userPools = NoPools
  /\ match = NoOutcome

IdleRequest == Request("lambda", NoIdentity, NoClaims)

InitScopes ==
  /\ spc = [s \in Scopes |-> 0]
  /\ phase = [s \in Scopes |-> "idle"]
  /\ sStore = [s \in Scopes |-> NoTenant]
  /\ nStore = [s \in Scopes |-> NoTenant]
  /\ bound = [s \in Scopes |-> NoTenant]
  /\ reads = [s \in Scopes |-> {}]

NoScopes ==
  /\ runTenant = [s \in Scopes |-> NoTenant]
  /\ script = [s \in Scopes |-> <<>>]
  /\ InitScopes

InitRun ==
  /\ pc = [r \in Requests |-> "idle"]
  /\ stage = [r \in Requests |-> "start"]
  /\ idx = [r \in Requests |-> 0]
  /\ evT = [r \in Requests |-> NoTenant]
  /\ pending = [r \in Requests |-> NoPending]
  /\ hostStore = NoTenant
  /\ dStore = [r \in Requests |-> NoTenant]
  /\ mStore = [r \in Requests |-> NoTenant]
  /\ hStore = [r \in Requests |-> NoTenant]
  /\ seen = [r \in Requests |-> {}]
  /\ log = [r \in Requests |-> <<>>]
  /\ result = [r \in Requests |-> NoResult]

\* One dispatch, every configuration and request.
Init ==
  /\ cfg \in Configs(MaxMw)
  /\ hosted = {1}
  /\ req \in {q \in [Requests -> AllRequests] : q[2] = IdleRequest}
  /\ InitRun
  /\ NoScopes
  /\ NoRouting

Spec == Init /\ [][Next]_vars

\* Requests of the two-call specification: tenant from claims only.
ConcRequests == {q \in AllRequests : q.headers = NoClaims /\ ~hasBypassRole(q)}

\* Two dispatches in one process whose configuration has initTenantContext
\* as a global middleware.
InitConc ==
  /\ cfg \in {c \in Configs(MaxConcMw) : \E i \in 1..Len(c.globalMw) : c.globalMw[i] = "init"}
  /\ hosted = {1, 2}
  /\ req \in [Requests -> ConcRequests]
  /\ InitRun
  /\ NoScopes
  /\ NoRouting

SpecConc == InitConc /\ [][Next]_vars

----------------------------------------------------------------------------
(* TenantContext.run() scopes.  A callback is a list of statements, each    *)
(* followed by a suspension point; at every resumption it reads current().  *)
(*   await        await of unrelated work                                   *)
(*   set          TenantContext.set(t) in the callback itself               *)
(*   callRead     await nested(), nested reading current() before and after *)
(*                an await of its own                                       *)
(*   callSet      await helper(), helper calling set(t) before any await    *)
(*   callLateSet  await helper(), helper calling set(t) after an await      *)

Ops == {"await", "set", "callRead", "callSet", "callLateSet"}

BaseTenants == {t \in TenantInfos : t.hasCRM = False}

\* The tenant a scope started with t hands to set().
Rebound(t) == [t EXCEPT !.hasCRM = True]

\* storage.run(tenant, callback): the store the callback runs with ...
run(store, tenant) == tenant

\* Variant: run() enters the store without leaving it (enterWith + callback()).
afterRunLeaks(store, tenant) == tenant

\* ... and the caller's store once run() has returned.
afterRun(store, tenant) == store

\* Variant: one static slot shared by every scope instead of per-chain storage.
ResumedShared(stores, s) == stores[1]

\* The store a continuation of scope s resumes with: its own chain's.
Resumed(stores, s) == stores[s]

Read(by, want, store) == [by |-> by, want |-> want, got |-> current(store)]

\* The callback from statement `pos`, resumed (or started) with `store`, up
\* to its next suspension; bnd is the tenant the scope bound last, t the one
\* it would rebind.
BodySegment(scr, pos, store, bnd, t) ==
  LET r0 == Read("body", bnd, store)
      op == scr[pos]
  IN  IF pos > Len(scr)
        THEN [spc |-> pos, phase |-> "done", sStore |-> store, nStore |-> NoTenant,
              bound |-> bnd, reads |-> {r0}]
      ELSE CASE op = "await" ->
                  [spc |-> pos + 1, phase |-> "body", sStore |-> store,
                   nStore |-> NoTenant, bound |-> bnd, reads |-> {r0}]
             [] op = "set" ->
                  [spc |-> pos + 1, phase |-> "body", sStore |-> set(store, t),
                   nStore |-> NoTenant, bound |-> t,
                   reads |-> {r0, Read("body", t, set(store, t))}]
             [] op = "callRead" ->
                  [spc |-> pos, phase |-> "nested", sStore |-> store,
                   nStore |-> store, bound |-> bnd,
                   reads |-> {r0, Read("nested", bnd, store)}]
             [] op = "callSet" ->
                  [spc |-> pos + 1, phase |-> "body", sStore |-> set(store, t),
                   nStore |-> NoTenant, bound |-> t,
                   reads |-> {r0, Read("nested", t, set(store, t))}]
             [] OTHER ->
                  [spc |-> pos, phase |-> "nested", sStore |-> store,
                   nStore |-> store, bound |-> bnd, reads |-> {r0}]

\* The nested function resumed after its own await, with the store it was
\* suspended with.
NestedSegment(op, store, bnd, t) ==
  IF op = "callLateSet"
    THEN [nStore |-> set(store, t), bound |-> t,
          reads |-> {Read("nested", t, set(store, t))}]
    ELSE [nStore |-> store, bound |-> bnd, reads |-> {Read("nested", bnd, store)}]

ApplyScope(s, d) ==
  /\ spc' = [spc EXCEPT ![s] = d.spc]
  /\ phase' = [phase EXCEPT ![s] = d.phase]
  /\ sStore' = [sStore EXCEPT ![s] = d.sStore]
  /\ nStore' = [nStore EXCEPT ![s] = d.nStore]
  /\ bound' = [bound EXCEPT ![s] = d.bound]
  /\ reads' = [reads EXCEPT ![s] = @ \cup d.reads]

\* The host calls TenantContext.run(tenant, callback).
RunScope(s) ==
  /\ phase[s] = "idle"
  /\ ApplyScope(s, BodySegment(script[s], 1, run(hostStore, runTenant[s]),
                               runTenant[s], Rebound(runTenant[s])))
  /\ hostStore' = afterRun(hostStore, runTenant[s])
  /\ UNCHANGED <<runTenant, script, dvars, fvars>>

\* The callback resumes after a suspension.
ResumeScope(s) ==
  /\ phase[s] = "body"
  /\ ApplyScope(s, BodySegment(script[s], spc[s], Resumed(sStore, s), bound[s],
                               Rebound(runTenant[s])))
  /\ UNCHANGED <<runTenant, script, dvars, hostStore, fvars>>

\* The nested function resumes and returns; the callback becomes resumable.
ResumeNested(s) ==
  /\ phase[s] = "nested"
  /\ LET d == NestedSegment(script[s][spc[s]], Resumed(nStore, s), bound[s],
                            Rebound(runTenant[s]))
     IN  /\ nStore' = [nStore EXCEPT ![s] = d.nStore]
         /\ bound' = [bound EXCEPT ![s] = d.bound]
         /\ reads' = [reads EXCEPT ![s] = @ \cup d.reads]
  /\ phase' = [phase EXCEPT ![s] = "body"]
  /\ spc' = [spc EXCEPT ![s] = @ + 1]
  /\ UNCHANGED <<runTenant, script, sStore, dvars, hostStore, fvars>>

NextScopes ==
  \E s \in Scopes :
    \/ RunScope(s)
    \/ ResumeScope(s)
    \/ ResumeNested(s)

\* Two scopes with distinct tenants, every pair of callbacks.
InitScopeRun ==
  /\ cfg = [globalMw |-> <<>>, segMw |-> <<>>, routeMw |-> <<>>]
  /\ hosted = {}
  /\ req = [r \in Requests |-> IdleRequest]
  /\ InitRun
  /\ runTenant \in {f \in [Scopes -> BaseTenants] : f[1] # f[2]}
  /\ script \in [Scopes -> SeqsUpTo(Ops, MaxOps)]
  /\ InitScopes
  /\ NoRouting

SpecScopes == InitScopeRun /\ [][NextScopes]_vars

----------------------------------------------------------------------------
(* Specifications of detection and routing: one dispatch of a raw event *)

\* What the pipeline reads of a raw event without tenant claims.
RequestOf(e) ==
  Request(detectEventType(e), extractIdentity(e, autoExtractIdentity), e.headers)

InitRaw ==
  /\ hosted = {1}
  /\ req = [r \in Requests |-> IF r = 1 THEN RequestOf(event) ELSE IdleRequest]
  /\ match = NoOutcome
  /\ InitRun
  /\ NoScopes

InitDispatch == PlainHandler /\ InitRaw

HttpEvent(method, resource, path, upstream, authorizer) ==
  [NoEvent EXCEPT !.requestContext = TRUE, !.httpMethod = method, !.resource = resource,
                  !.path = path, !.pathParameters = upstream, !.authorizer = authorizer]

PathA == <<Slash, "a">>

\* GET /a and OPTIONS /a.
RouterA == [EmptyRouter EXCEPT !["get"] = <<PathA>>, !["options"] = <<PathA>>]

\* No table, a flat one, and every segmented table whose segments register
\* RouterA, plainly or with a middleware of their own.
HttpTables ==
  {NoApi, FlatApi(RouterA)} \cup
  {SegmentedApi([g \in SegmentNames |->
                   IF g \in withMw THEN ConfigSegment(RouterA, <<"user">>)
                   ELSE IF g \in plain THEN PlainSegment(RouterA)
                   ELSE AbsentSegment]) :
     plain \in SUBSET SegmentNames, withMw \in SUBSET SegmentNames}

\* HTTP requests for /a or /, with and without identity, against every
\* table of HttpTables and every assignment of expected issuers.
InitHttp ==
  /\ cfg = [globalMw |-> <<"user">>, segMw |-> <<>>, routeMw |-> <<>>]
  /\ event \in {HttpEvent(m, <<>>, q, NoPathParameters, i) :
                  m \in {"GET", "OPTIONS"}, q \in {PathA, <<Slash>>}, i \in Authorizers}
  /\ routes \in {[NoRoutes EXCEPT !.apigateway = t] : t \in HttpTables}
  /\ userPools \in [SegmentNames -> PoolOpt]
  /\ InitDispatch

SpecHttp == InitHttp /\ [][NextRoute]_vars

\* The routes of one verb in one router: none, one, or two in either order.
RouteLists ==
  {<<>>} \cup {<<p>> : p \in Patterns} \cup
  {l \in Patterns \X Patterns : l[1] # l[2]}

\* A GET for every concrete path, carrying no resource template or any
\* template, against every flat table of RouteLists; no middleware.
InitMatch ==
  /\ cfg = [globalMw |-> <<>>, segMw |-> <<>>, routeMw |-> <<>>]
  /\ event \in {HttpEvent("GET", t, q, NoPathParameters, NoAuthorizer) :
                  t \in Patterns \cup {<<>>}, q \in Paths}
  /\ routes \in {[NoRoutes EXCEPT !.apigateway = FlatApi([EmptyRouter EXCEPT !["get"] = l])] :
                   l \in RouteLists}
  /\ userPools = NoPools
  /\ InitDispatch

SpecMatch == InitMatch /\ [][NextMatch]_vars

\* A value API Gateway extracted upstream; no concrete path contains it.
UpstreamValue == <<"u">>

\* event.pathParameters: null, empty, or values for x and/or y.
UpstreamMaps ==
  {NoPathParameters} \cup
  {[present |-> TRUE, map |-> [n \in names |-> UpstreamValue]] : names \in SUBSET {"x", "y"}}

\* A GET for every concrete path and template against every flat table of
\* one route, with every upstream parameter map; no middleware.
InitParams ==
  /\ cfg = [globalMw |-> <<>>, segMw |-> <<>>, routeMw |-> <<>>]
  /\ event \in {HttpEvent("GET", t, q, up, NoAuthorizer) :
                  t \in Patterns \cup {<<>>}, q \in Paths, up \in UpstreamMaps}
  /\ routes \in {[NoRoutes EXCEPT !.apigateway = FlatApi([EmptyRouter EXCEPT !["get"] = <<p>>])] :
                   p \in Patterns}
  /\ userPools = NoPools
  /\ InitDispatch

SpecParams == InitParams /\ [][NextMatch]_vars

\* event.detail: absent, without operation name, or naming an operation.
Details ==
  {NoDetail} \cup
  [present : {TRUE}, operationName : {"", "op1", "op2", "toString"}, data : {"d1"}]

\* Tables of handlers by name: absent, or any subset of names registered.
Tables(names) == {NoTable} \cup {Table(k) : k \in SUBSET names}

\* Events carrying any combination of the four markers, against every
\* combination of event-bus, queue and direct-invocation handlers.
InitTrigger ==
  /\ cfg = [globalMw |-> <<"user">>, segMw |-> <<>>, routeMw |-> <<>>]
  /\ event \in {[NoEvent EXCEPT !.source = src, !.requestContext = rc, !.httpMethod = m,
                                !.Records = <<Record(IF sq THEN "aws:sqs" ELSE "aws:s3",
                                                     arn, NoText)>>,
                                !.awsRequestId = id, !.path = PathA, !.detail = d] :
                  src \in {"EVENT_BRIDGE", "other"}, rc \in BOOLEAN, m \in {"", "GET"},
                  sq \in BOOLEAN, id \in BOOLEAN, d \in Details,
                  arn \in {NoText, Text(<<"q">>)}}
  /\ routes \in [apigateway : {NoApi, FlatApi(RouterA)},
                 eventbridge : Tables({"op1", "default"}),
                 sqs : Tables({"q", "default"}),
                 lambda : Tables({"default"})]
  /\ userPools = NoPools
  /\ InitDispatch

SpecTrigger == InitTrigger /\ [][NextRoute]_vars

----------------------------------------------------------------------------
(* Properties *)

Settled == {"returned", "rejected"}

IsHttp(r) == req[r].trigger = "apigateway"

\* Event e occurs in lg before position k.
Before(lg, e, k) == \E j \in 1..(k - 1) : lg[j] = e

HandlerInvoked(r) == \E k \in 1..Len(log[r]) : log[r][k] = HandlerEv

WasRejected(r) == \E k \in 1..Len(log[r]) : log[r][k].e = "reject"

\* The tenant initTenantContext resolves for a request: claims, else headers.
Resolved(rq) ==
  IF rq.identity.present /\ tenantInfoFromClaims(rq.identity.claims) # NoTenant
    THEN tenantInfoFromClaims(rq.identity.claims)
    ELSE tenantInfoFromHeaders(rq.headers)

\* C1: with initTenantContext as a global middleware, the handler of an HTTP
\* dispatch never reads through TenantContext a tenant other than the one
\* resolved for its own request; a request that resolves none reads none.
C1_NoCrossRequestRead ==
  (\A q \in Requests : IsHttp(q)) =>
    \A r \in Requests : \A v \in seen[r] : v = NoTenant \/ v = Resolved(req[r])

\* C2: once every dispatch the host made has settled, the host's own code
\* observes no bound tenant (isActive() is false).
C2_BindingDiscardedOnSettle ==
  (hosted # {} /\ \A r \in hosted : pc[r] \in Settled) => ~isActive(hostStore)

\* C3: two concurrent run() scopes with distinct tenants never cross-observe:
\* every current() in a scope returns the tenant the scope was started with,
\* or, once the scope itself has rebound it, the tenant it rebound.
C3_ScopesNeverCrossObserve ==
  \A s \in Scopes : \A rd \in reads[s] :
    /\ rd.got \in {runTenant[s], Rebound(runTenant[s])}
    /\ bound[s] = runTenant[s] => rd.got = runTenant[s]

\* Both scopes are suspended in mid-callback at the same time.
C3_Witness ==
  /\ \A s \in Scopes : phase[s] \in {"body", "nested"} /\ spc[s] > 1
  /\ \A s \in Scopes : reads[s] # {}

\* C4: run(tenant, callback) binds the tenant for the whole callback, nested
\* async functions included (as long as the scope does not rebind), and once
\* the chain has completed code outside reads no binding: current() signals
\* not-initialized.
C4_RunBindsForCallbackOnly ==
  \A s \in Scopes :
    /\ bound[s] = runTenant[s] => \A rd \in reads[s] : rd.got = runTenant[s]
    /\ phase[s] = "done" => current(hostStore) = NotInitialized

\* A completed scope whose nested async function read the tenant.
C4_Witness ==
  \E s \in Scopes :
    /\ phase[s] = "done"
    /\ bound[s] = runTenant[s]
    /\ \E rd \in reads[s] : rd.by = "nested" /\ rd.got = runTenant[s]

\* C5: after set(t) in a scope, every later current() of that scope returns
\* t (and never a sibling's tenant): each read returns what the scope bound
\* last.
C5_SetReplacesScopeBinding ==
  \A s \in Scopes : \A rd \in reads[s] : rd.got = rd.want

\* C6: on an HTTP dispatch a started middleware settles before anything else
\* starts, no segment middleware precedes a global one, middleware of a list
\* run in list order, and the handler is invoked last, after every global
\* and segment middleware has settled.
C6_StagesInOrderHandlerLast ==
  \A r \in Requests : IsHttp(r) =>
    LET lg == log[r] IN
    /\ \A k \in 1..Len(lg) :
         (lg[k].e = "start" /\ k < Len(lg)) =>
           /\ lg[k + 1].e \in {"end", "reject"}
           /\ lg[k + 1].st = lg[k].st
           /\ lg[k + 1].i = lg[k].i
    /\ \A j, k \in 1..Len(lg) :
         j < k => /\ ~(lg[j].st = "segment" /\ lg[k].st = "global")
                  /\ (lg[j].st = lg[k].st => lg[j].i <= lg[k].i)
    /\ \A k \in 1..Len(lg) :
         lg[k] = HandlerEv =>
           /\ k = Len(lg)
           /\ \A i \in 1..Len(cfg.globalMw) : Before(lg, EndEv("global", i), k)
           /\ \A i \in 1..Len(cfg.segMw) : Before(lg, EndEv("segment", i), k)

\* The handler was invoked behind a global and a segment middleware.
C6_Witness ==
  \E r \in Requests :
    /\ IsHttp(r) /\ HandlerInvoked(r)
    /\ Len(cfg.globalMw) > 0 /\ Len(cfg.segMw) > 0

\* C7: on an HTTP dispatch every middleware the route entry declares has
\* run, after the segment middleware, before the handler is invoked.
C7_RouteMiddlewareRuns ==
  \A r \in Requests : IsHttp(r) =>
    \A k \in 1..Len(log[r]) :
      log[r][k] = HandlerEv =>
        \A i \in 1..Len(cfg.routeMw) : Before(log[r], EndEv("route", i), k)

\* C8 as stated: whatever the trigger kind, every global middleware has
\* settled before the handler is invoked.
C8_GlobalBeforeHandlerAnyTrigger ==
  \A r \in Requests :
    \A k \in 1..Len(log[r]) :
      log[r][k] = HandlerEv =>
        \A i \in 1..Len(cfg.globalMw) : Before(log[r], EndEv("global", i), k)

\* C8 amended: on an HTTP dispatch every global middleware has settled before
\* the handler is invoked; on an event-bus, queue or direct-invocation
\* dispatch the handler is invoked with no middleware run.
C8_GlobalBeforeHandlerHttp ==
  \A r \in Requests :
    \A k \in 1..Len(log[r]) :
      log[r][k] = HandlerEv =>
        IF IsHttp(r)
          THEN \A i \in 1..Len(cfg.globalMw) : Before(log[r], EndEv("global", i), k)
          ELSE log[r] = <<HandlerEv>>

\* An HTTP handler invoked behind the longest global list.
C8_Witness ==
  \E r \in Requests : IsHttp(r) /\ HandlerInvoked(r) /\ Len(cfg.globalMw) = MaxMw

\* C9: a rejection by a middleware is the last thing a dispatch does: no
\* later middleware and no handler is invoked, and the dispatch has ended.
C9_RejectionHalts ==
  \A r \in Requests :
    \A k \in 1..Len(log[r]) :
      log[r][k].e = "reject" =>
        /\ k = Len(log[r])
        /\ pc[r] = "rejected"
        /\ ~HandlerInvoked(r)

\* A guard rejected while a later middleware of its list was still to run.
C9_Witness ==
  \E r \in Requests :
    /\ pc[r] = "rejected"
    /\ idx[r] < Len(StageList(cfg, stage[r]))

\* C10: a dispatch in which a guard rejected completes by returning the
\* guard's forbidden payload (403, TENANT_CONTEXT_MISSING or
\* CRM_ACCESS_DENIED) as its result.
C10_GuardPayloadReturned ==
  \A r \in Requests :
    (WasRejected(r) /\ pc[r] \in Settled) =>
      /\ result[r].how = "returned"
      /\ result[r].statusCode = 403
      /\ result[r].code \in {"TENANT_CONTEXT_MISSING", "CRM_ACCESS_DENIED"}

\* A queue event of one record with any ARN and any body, against every
\* table of queue handlers; no middleware.
InitQueue ==
  /\ cfg = [globalMw |-> <<>>, segMw |-> <<>>, routeMw |-> <<>>]
  /\ event \in {[NoEvent EXCEPT !.Records = <<SqsRecord(arn, b)>>] :
                  arn \in Arns, b \in Bodies}
  /\ routes \in {[NoRoutes EXCEPT !.sqs = t] : t \in Tables({"q", "default"})}
  /\ userPools = NoPools
  /\ InitDispatch

SpecQueue == InitQueue /\ [][NextMatch]_vars

\* What a handler may answer: undefined, or a response object without
\* headers or with any of three headers set, one of them a CORS header and
\* one the same name in lower case.
HandlerResults ==
  {[how |-> "returned", statusCode |-> 0, code |-> "undefined", isObject |-> FALSE,
    headers |-> NoHeaders],
   [HandlerResponse EXCEPT !.headers = NoHeaders]} \cup
  {[HandlerResponse EXCEPT !.headers = Headers([n \in names |-> "set by handler"])] :
     names \in SUBSET {OriginHeader, "access-control-allow-origin", "Content-Type"}}

\* process.env with any of the CORS_* settings made.
Envs == [DOMAIN NoEnv -> {"", "set by env"}]

\* One event of each trigger kind.
EventKinds ==
  {HttpEvent("GET", <<>>, PathA, NoPathParameters, NoAuthorizer),
   [NoEvent EXCEPT !.source = "EVENT_BRIDGE"],
   [NoEvent EXCEPT !.Records = <<SqsRecord(NoText, NoText)>>],
   [NoEvent EXCEPT !.awsRequestId = TRUE]}

\* An event of any kind whose handler is registered and answers any of
\* HandlerResults, under any CORS_* settings; no middleware.
InitCors ==
  /\ cfg = [globalMw |-> <<>>, segMw |-> <<>>, routeMw |-> <<>>]
  /\ event \in EventKinds
  /\ routes = [apigateway |-> FlatApi(RouterA), eventbridge |-> Table({"default"}),
               sqs |-> Table({"default"}), lambda |-> Table({"default"})]
  /\ userPools = NoPools
  /\ handlerResult \in HandlerResults
  /\ env \in Envs
  /\ autoExtractIdentity = Undefined
  /\ InitRaw

SpecCors == InitCors /\ [][NextMatch]_vars

----------------------------------------------------------------------------
(* Specifications of the guards and of tenant resolution *)

\* Longest tenant id, in characters.
MaxIdLen == 2

\* A tenant id is made of blanks and other characters.
IdChars == {" ", "tA"}

\* The TenantInfo an event may carry in context.tenantInfo when a guard is
\* called with it: none, or one with any id, the empty and the blank ones
\* included, and with hasCRM a boolean, a claim string or missing.
GivenTenants ==
  {NoTenant} \cup
  {TenantInfo(id, <<"ORG">>, <<"u1">>, <<"CO">>, crm) :
     id \in SeqsUpTo(IdChars, MaxIdLen),
     crm \in {Undefined, True, False, <<"true">>, <<"false">>}}

\* context.identity: none, or one without groups, with an empty list, or
\* with a list holding the bypass role or not.
GivenIdentities ==
  {NoIdentity} \cup
  {Identity(<<>>, groups, NoClaims) :
     groups \in {Undefined, <<>>, <<"AGENT">>, <<"PLATFORM_ADMIN">>,
                 <<"AGENT", "PLATFORM_ADMIN">>}}

\* The event of call 1 carries context.tenantInfo = t.
Given(t) ==
  /\ pc = [r \in Requests |-> "idle"]
  /\ stage = [r \in Requests |-> "start"]
  /\ idx = [r \in Requests |-> 0]
  /\ evT = [r \in Requests |-> IF r = 1 THEN t ELSE NoTenant]
  /\ pending = [r \in Requests |-> NoPending]
  /\ hostStore = NoTenant
  /\ dStore = [r \in Requests |-> NoTenant]
  /\ mStore = [r \in Requests |-> NoTenant]
  /\ hStore = [r \in Requests |-> NoTenant]
  /\ seen = [r \in Requests |-> {}]
  /\ log = [r \in Requests |-> <<>>]
  /\ result = [r \in Requests |-> NoResult]

\* tenantGuard or crmGuard called with any event of GivenTenants and
\* GivenIdentities.
InitGuards ==
  /\ cfg \in {[globalMw |-> <<k>>, segMw |-> <<>>, routeMw |-> <<>>] : k \in {"tguard", "crm"}}
  /\ hosted = {1}
  /\ req \in {[r \in Requests |-> IF r = 1 THEN Request("apigateway", i, NoClaims)
                                            ELSE IdleRequest] : i \in GivenIdentities}
  /\ \E t \in GivenTenants : Given(t)
  /\ NoScopes
  /\ NoRouting

SpecGuards == InitGuards /\ [][NextMw]_vars

\* Tokens issued for a tenant of any non-empty id, with custom:hasCRM
\* missing, 'true', 'false' or empty; or for no tenant.
IssuedClaims ==
  {NoClaims} \cup
  {TenantClaims(id, crm) : id \in SeqsUpTo(IdChars, MaxIdLen) \ {<<>>},
                           crm \in {Undefined, <<"true">>, <<"false">>, <<>>}}

\* An HTTP request of anyone, with or without propagation headers, through
\* initTenantContext as global middleware and crmGuard as the segment's.
InitTenancy ==
  /\ cfg \in {[globalMw |-> <<"init">>, segMw |-> s, routeMw |-> <<>>] :
                s \in {<<"crm">>, <<"user", "crm">>}}
  /\ hosted = {1}
  /\ req \in {[r \in Requests |-> IF r = 1 THEN Request("apigateway", i, h) ELSE IdleRequest] :
                i \in {NoIdentity} \cup
                      {Identity(<<>>, g, c) : g \in {<<>>, <<"PLATFORM_ADMIN">>},
                                              c \in IssuedClaims},
                h \in {NoClaims, TenantHeaders(<<"tB">>)}}
  /\ InitRun
  /\ NoScopes
  /\ NoRouting

SpecTenancy == InitTenancy /\ [][Next]_vars

\* Claims of a token that carries each tenant field under its prefixed key,
\* its unprefixed key, both or neither, with values that differ; the
\* prefixed tenant id may be empty and the prefixed type unknown.
MixedClaims ==
  {ObjectOf({<<"custom:tenantId", pid>>, <<"tenantId", id>>,
             <<"custom:tenantType", pty>>, <<"tenantType", ty>>,
             <<"custom:userId", pu>>, <<"userId", u>>, <<"sub", sub>>,
             <<"custom:countryCode", pcc>>, <<"countryCode", cc>>,
             <<"custom:hasCRM", crm>>}) :
     pid \in {Undefined, <<>>, <<"tA">>}, id \in {Undefined, <<"tB">>},
     pty \in {Undefined, <<"ORG">>, <<"X">>}, ty \in {Undefined, <<"PERSON">>},
     pu \in {Undefined, <<"u1">>}, u \in {Undefined, <<"u2">>}, sub \in {Undefined, <<"s">>},
     pcc \in {Undefined, <<"CO">>}, cc \in {Undefined, <<"MX">>},
     crm \in {Undefined, <<"true">>}}

\* Headers that propagate no tenant, tenant tB, or tB without its country.
MixedHeaders ==
  {NoClaims, TenantHeaders(<<"tB">>),
   ObjectOf({<<"x-tenant-id", <<"tB">>>>, <<"x-tenant-type", <<"ORG">>>>,
             <<"x-user-id", <<"u1">>>>})}

\* initTenantContext called with an event of any of these claims and
\* headers, whose context carries no tenantInfo or one of an earlier step.
InitResolve ==
  /\ cfg = [globalMw |-> <<"init">>, segMw |-> <<>>, routeMw |-> <<>>]
  /\ hosted = {1}
  /\ req \in {[r \in Requests |-> IF r = 1 THEN Request("apigateway", i, h) ELSE IdleRequest] :
                i \in {NoIdentity} \cup {Identity(<<>>, <<>>, c) : c \in MixedClaims},
                h \in MixedHeaders}
  /\ \E t \in {NoTenant, TenantInfo(<<"tG">>, <<"PERSON">>, <<"u0">>, <<"US">>, Undefined)} :
       Given(t)
  /\ NoScopes
  /\ NoRouting

SpecResolve == InitResolve /\ [][NextMw]_vars

\* Tables that register GET /a in one segment, with tenantGuard as the
\* segment's middleware or with none.
OneSegmentTables ==
  {SegmentedApi([g \in SegmentNames |->
                   IF g # only THEN AbsentSegment
                   ELSE IF guarded THEN ConfigSegment(RouterA, <<"tguard">>)
                   ELSE PlainSegment(RouterA)]) :
     only \in SegmentNames, guarded \in BOOLEAN}

\* GET /a of a caller without identity, with a token without tenant or
\* with the token of tenant tA, with or without headers that propagate
\* tenant tB, initTenantContext being the global middleware.
InitSegmentTenancy ==
  /\ cfg = [globalMw |-> <<"init">>, segMw |-> <<>>, routeMw |-> <<>>]
  /\ event \in {[HttpEvent("GET", <<>>, PathA, NoPathParameters, i) EXCEPT !.headers = h] :
                  i \in {NoAuthorizer} \cup
                        {Cognito(c) : c \in {NoClaims, TenantClaims(<<"tA">>, Undefined)}},
                  h \in {NoClaims, TenantHeaders(<<"tB">>)}}
  /\ routes \in {[NoRoutes EXCEPT !.apigateway = t] : t \in OneSegmentTables}
  /\ userPools = NoPools
  /\ InitDispatch

SpecSegmentTenancy == InitSegmentTenancy /\ [][NextRoute]_vars

\* A nested payload: not there, empty, or holding the subject given.
Payloads(sub) == {NoObject, Object(NoClaims), Object(ObjectOf({<<"sub", sub>>}))}

\* The authorizer's own string properties: none, some that name no
\* identity, some that do.
FlatPayloads ==
  {NoClaims, ObjectOf({<<"principalId", <<"p">>>>}), ObjectOf({<<"sub", <<"F">>>>}),
   ObjectOf({<<"principalId", <<"p">>>>, <<"email", <<"e">>>>})}

\* No authorizer, and every authorizer made of these payloads.
ShapedAuthorizers ==
  {NoAuthorizer} \cup
  {Authorizer(c, j, l, f) : c \in Payloads(<<"C">>), j \in Payloads(<<"J">>),
                            l \in Payloads(<<"L">>), f \in FlatPayloads}

\* extractIdentity called with an HTTP event of any of these authorizers.
InitIdentity ==
  /\ cfg = [globalMw |-> <<>>, segMw |-> <<>>, routeMw |-> <<>>]
  /\ hosted = {1}
  /\ event \in {HttpEvent("GET", <<>>, PathA, NoPathParameters, a) : a \in ShapedAuthorizers}
  /\ routes = NoRoutes
  /\ userPools = NoPools
  /\ PlainHandler
  /\ req = [r \in Requests |-> IF r = 1 THEN Request("apigateway", NoIdentity, NoClaims)
                                        ELSE IdleRequest]
  /\ match = NoOutcome
  /\ InitRun
  /\ NoScopes

SpecIdentity == InitIdentity /\ [][NextExtract]_vars

\* Values of an Authorization header: a bearer token of issuer /A, the
\* same without prefix, a token without issuer, one whose payload is not
\* JSON, and one of two parts.
AuthorizationValues ==
  {<<Bearer, "h", Dot, "eyA", Dot, "s">>, <<"h", Dot, "eyA", Dot, "s">>,
   <<Bearer, "h", Dot, "eyN", Dot, "s">>, <<Bearer, "h", Dot, "zz", Dot, "s">>,
   <<Bearer, "eyA", Dot, "s">>}

\* Request headers without Authorization, or with one in either spelling.
BearerHeaders ==
  {NoClaims} \cup
  {ObjectOf({<<name, value>>}) : name \in {"authorization", "Authorization"},
                                 value \in AuthorizationValues}

\* GET /a without authorizer, with an authorizer of no recognized shape or
\* with claims of issuer /A, under any of BearerHeaders, routed to any one
\* segment, with pool A expected everywhere or nowhere, and with
\* autoExtractIdentity missing, false or true.
InitBearer ==
  /\ cfg = [globalMw |-> <<"user">>, segMw |-> <<>>, routeMw |-> <<>>]
  /\ event \in {[HttpEvent("GET", <<>>, PathA, NoPathParameters, a) EXCEPT !.headers = h] :
                  a \in {NoAuthorizer,
                         Authorizer(NoObject, NoObject, NoObject,
                                    ObjectOf({<<"principalId", <<"p">>>>})),
                         Cognito(ObjectOf({<<"iss", <<Slash, "A">>>>}))},
                  h \in BearerHeaders}
  /\ routes \in {[NoRoutes EXCEPT !.apigateway = t] : t \in OneSegmentTables}
  /\ userPools \in {NoPools, [g \in SegmentNames |-> PoolA]}
  /\ handlerResult = HandlerResponse
  /\ env = NoEnv
  /\ autoExtractIdentity \in {Undefined, False, True}
  /\ InitRaw

SpecBearer == InitBearer /\ [][NextRoute]_vars

\* Middleware of the host's: one that passes, one that throws an error,
\* one that never settles.
HostMwKinds == {"user", "fails", "hangs"}

\* The configurations of at most n such middleware, global and segment.
HostConfigs(n) ==
  {c \in [globalMw : SeqsUpTo(HostMwKinds, n), segMw : SeqsUpTo(HostMwKinds, n),
          routeMw : {<<>>}] : Len(c.globalMw) + Len(c.segMw) <= n}

\* An HTTP request or a queue message, through any of these configurations
\* to a handler that answers, rejects with an error, or never settles.
InitFaulty ==
  /\ cfg \in HostConfigs(MaxMw)
  /\ hosted = {1}
  /\ req \in {[r \in Requests |-> IF r = 1 THEN Request(t, NoIdentity, NoClaims)
                                          ELSE IdleRequest] : t \in {"apigateway", "sqs"}}
  /\ InitRun
  /\ NoScopes
  /\ handlerResult \in {HandlerResponse, Error("Error: handler failed"), NoResult}
  /\ PlainConfig
  /\ event = NoEvent
  /\ routes = NoRoutes
  /\ userPools = NoPools
  /\ match = NoOutcome

SpecFaulty == InitFaulty /\ [][Next]_vars

\* The event loop runs every continuation whose awaited promise has settled.
SpecFaultyFair == SpecFaulty /\ WF_vars(Next)

\* The TenantInfo values a function may hold: any non-empty id, either
\* type, a user and a country, and hasCRM set or not.
ValidTenants ==
  {TenantInfo(id, type, user, <<"CO">>, crm) :
     id \in SeqsUpTo(IdChars, MaxIdLen) \ {<<>>}, type \in {<<"ORG">>, <<"PERSON">>},
     user \in {<<"u1">>, <<"u2">>}, crm \in {Undefined, True, False}}

\* Function 1 holds any of ValidTenants and is about to invoke function 2.
InitPropagate ==
  /\ cfg = [globalMw |-> <<>>, segMw |-> <<>>, routeMw |-> <<>>]
  /\ hosted = {1, 2}
  /\ req = [r \in Requests |-> IdleRequest]
  /\ \E t \in ValidTenants : Given(t)
  /\ NoScopes
  /\ NoRouting

SpecPropagate == InitPropagate /\ [][NextPropagate]_vars

\* Events of every trigger kind and of none: GET or OPTIONS on /a or /
\* without identity or with one issued by pool A; event-bus events naming
\* op1, toString or nothing; a queue record of queue q; a direct
\* invocation; an event without marker.
AnyEvents ==
  {HttpEvent(m, <<>>, q, NoPathParameters, a) :
     m \in {"GET", "OPTIONS"}, q \in {PathA, <<Slash>>},
     a \in {NoAuthorizer, Cognito(ObjectOf({<<"iss", <<Slash, "A">>>>}))}} \cup
  {[NoEvent EXCEPT !.source = "EVENT_BRIDGE", !.detail = d] : d \in Details \ {NoDetail}} \cup
  {[NoEvent EXCEPT !.Records = <<SqsRecord(Text(<<"q">>), Text(<<"1">>))>>],
   [NoEvent EXCEPT !.awsRequestId = TRUE],
   NoEvent}

\* Any of AnyEvents against no HTTP table or one segment serving GET /a,
\* plainly or behind tenantGuard, and any tables of named handlers; pool A
\* expected everywhere or nowhere; a global middleware that passes or
\* throws; a handler that answers or rejects.
InitOnce ==
  /\ cfg \in {[globalMw |-> <<k>>, segMw |-> <<>>, routeMw |-> <<>>] : k \in {"user", "fails"}}
  /\ event \in AnyEvents
  /\ routes \in [apigateway : {NoApi} \cup OneSegmentTables,
                 eventbridge : Tables({"op1"}),
                 sqs : Tables({"q"}),
                 lambda : Tables({"default"})]
  /\ userPools \in {NoPools, [g \in SegmentNames |-> PoolA]}
  /\ handlerResult \in {HandlerResponse, Error("Error: handler failed")}
  /\ PlainConfig
  /\ InitRaw

SpecOnce == InitOnce /\ [][NextRoute]_vars

\* Most records in a queue batch.
MaxRecords == 3

\* Records of the queues q, r and toString, whose bodies decode or not.
BatchRecords ==
  {SqsRecord(Text(<<name>>), Text(b)) : name \in {"q", "r", "toString"},
                                       b \in {<<"1">>, <<"{">>}}

\* A batch of one to MaxRecords such records against every table of
\* handlers for q, r and the default; no middleware.
InitBatch ==
  /\ cfg = [globalMw |-> <<>>, segMw |-> <<>>, routeMw |-> <<>>]
  /\ event \in {[NoEvent EXCEPT !.Records = records] :
                  records \in SeqsUpTo(BatchRecords, MaxRecords) \ {<<>>}}
  /\ routes \in {[NoRoutes EXCEPT !.sqs = t] : t \in Tables({"q", "r", "default"})}
  /\ userPools = NoPools
  /\ InitDispatch

SpecBatch == InitBatch /\ [][NextMatch]_vars

----------------------------------------------------------------------------
(* Properties of detection and routing (call 1 dispatches the raw event) *)

\* The call resolved an HTTP route.
Routed == pc[1] # "idle" /\ match.type = "apigateway" /\ match.segment \in SegmentNames

\* dispatchEvent called a middleware or a handler.
Invoked == log[1] # <<>>

\* last is what follows the last slash of str.
TrailingSegment(str, last) ==
  /\ \A i \in DOMAIN last : last[i] # Slash
  /\ \/ str = last
     \/ \E k \in DOMAIN str : str[k] = Slash /\ SubSeq(str, k + 1, Len(str)) = last

\* context.identity of the normalized event.
EventIdentity == extractIdentity(event, autoExtractIdentity)

\* The identity carries an issuer whose trailing path segment is pool.
IssuedBy(identity, pool) ==
  identity.present /\ Truthy(identity.issuer) /\ TrailingSegment(identity.issuer, pool)

\* The resolved segment is not public and has an expected issuer configured.
IssuerRequired == match.segment # "public" /\ userPools[match.segment] # <<>>

ReturnedWith(status) == result[1].how = "returned" /\ result[1].statusCode = status

\* C11: an HTTP request resolved to a non-public segment with a configured
\* expected issuer, whose identity is absent, has no issuer, or has an issuer
\* with another trailing path segment, gets the forbidden (403) result, and
\* no middleware and no handler is invoked.
C11_IssuerMismatchForbidden ==
  (Routed /\ IssuerRequired /\ ~IssuedBy(EventIdentity, userPools[match.segment])) =>
    /\ pc[1] = "returned"
    /\ ReturnedWith(403)
    /\ ~Invoked

\* A token of another issuer was turned away from a segment with middleware.
C11_Witness ==
  /\ Routed
  /\ IssuerRequired
  /\ EventIdentity.present
  /\ EventIdentity.issuer # <<>>
  /\ ~IssuedBy(EventIdentity, userPools[match.segment])
  /\ Len(match.middleware) > 0
  /\ ReturnedWith(403)

\* C12: a resolved HTTP request is turned away by issuer validation exactly
\* when its segment is not public, that very segment has an expected issuer
\* configured and the identity does not carry it; in every other case (public
\* segment, flat table, segment without configured issuer) it proceeds to
\* middleware and handler, with or without identity.
C12_ValidationOnlyWhereConfigured ==
  Routed =>
    /\ Invoked <=> ~(IssuerRequired /\ ~IssuedBy(EventIdentity, userPools[match.segment]))
    /\ (~IssuerRequired /\ pc[1] = "returned") => (HandlerInvoked(1) /\ ReturnedWith(200))

\* A request without identity reached the handler of a segment without
\* expected issuer while another segment has one.
C12_Witness ==
  /\ Routed
  /\ match.segment = "internal"
  /\ userPools["internal"] = <<>>
  /\ userPools["private"] # <<>>
  /\ ~EventIdentity.present
  /\ HandlerInvoked(1)
  /\ pc[1] = "returned"

\* Segment g registers, for the verb of the request, the path of the request.
Serves(g) ==
  /\ routes.apigateway.segs[g].present
  /\ Registers(routes.apigateway.segs[g].routes[toLowerCase(event.httpMethod)], event.path)

\* C13: in a segmented table the first segment, in the order public, private,
\* backoffice, internal, that registers the request's (verb, pattern) wins:
\* the request resolves to the handler, the segment tag and the segment
\* middleware of that segment, whatever later segments register.
C13_EarlierSegmentWins ==
  (Routed /\ isSegmentedRouter(routes.apigateway)) =>
    \E i \in DOMAIN Segments :
      /\ Serves(Segments[i])
      /\ \A j \in 1..(i - 1) : ~Serves(Segments[j])
      /\ match.segment = Segments[i]
      /\ match.handler = HandlerAt(Segments[i], toLowerCase(event.httpMethod), event.path)
      /\ match.middleware =
           IF routes.apigateway.segs[Segments[i]].isConfig
             THEN routes.apigateway.segs[Segments[i]].middleware ELSE <<>>
      /\ cfg.segMw = match.middleware \/ ~Invoked

\* Two segments register the route, the later one with a middleware the
\* earlier one does not have; the handler was reached.
C13_Witness ==
  /\ Routed
  /\ \E i, j \in DOMAIN Segments :
       /\ i < j
       /\ Serves(Segments[i])
       /\ Serves(Segments[j])
       /\ match.segment = Segments[i]
       /\ ~routes.apigateway.segs[Segments[i]].isConfig
       /\ routes.apigateway.segs[Segments[j]].isConfig
  /\ HandlerInvoked(1)

\* No route of the table is registered for the verb and path of the request.
NoRouteRegistered ==
  IF isSegmentedRouter(routes.apigateway)
    THEN \A g \in SegmentNames : ~Serves(g)
    ELSE ~Registers(routes.apigateway.flat[toLowerCase(event.httpMethod)], event.path)

\* C14: an HTTP request (other than a preflight) that no route matches, or
\* that finds no HTTP route table, gets the not-found (404) result, and no
\* handler and no middleware is invoked.
C14_NoRouteNotFound ==
  (/\ pc[1] # "idle"
   /\ match.type = "apigateway"
   /\ toLowerCase(event.httpMethod) # "options"
   /\ ~routes.apigateway.present \/ NoRouteRegistered) =>
    /\ pc[1] = "returned"
    /\ ReturnedWith(404)
    /\ ~Invoked

\* A table with routes, a global middleware, and a path none of them has.
C14_Witness ==
  /\ ReturnedWith(404)
  /\ routes.apigateway.present
  /\ \E g \in SegmentNames : routes.apigateway.segs[g].present
  /\ NoRouteRegistered
  /\ Len(cfg.globalMw) > 0

\* C19: an HTTP request whose verb is OPTIONS is answered with the preflight
\* response (204) before routing: whatever the table and the configuration,
\* nothing is resolved for it (no route, no not-found, no forbidden) and no
\* middleware or handler is invoked.
C19_PreflightBeforeRouting ==
  (/\ pc[1] # "idle"
   /\ match.type = "apigateway"
   /\ toLowerCase(event.httpMethod) = "options") =>
    /\ pc[1] = "returned"
    /\ ReturnedWith(204)
    /\ match.handler = NoHandler
    /\ match.segment = "none"
    /\ ~Invoked

\* A preflight for a path that a non-public segment registers under OPTIONS
\* and protects by an expected issuer, sent without identity.
C19_Witness ==
  /\ ReturnedWith(204)
  /\ toLowerCase(event.httpMethod) = "options"
  /\ ~Serves("public")
  /\ Serves("private")
  /\ userPools["private"] # <<>>
  /\ ~EventIdentity.present

----------------------------------------------------------------------------
(* Properties of the lookup in one router (flat table, verb GET) *)

\* The routes registered for the verb of the request, in declaration order.
Registered == routes.apigateway.flat[toLowerCase(event.httpMethod)]

\* The concrete path of the request and its resource template (or, without
\* one, its path), normalized.
ConcretePath == normalizePath(event.path)

Template == normalizePath(IF event.resource # <<>> THEN event.resource ELSE event.path)

IsLiteral(pattern) == \A i \in DOMAIN pattern : pattern[i] \notin Placeholders

\* The table registers the concrete path as a literal pattern and also a
\* parametric pattern that matches it.
LiteralAndParametric ==
  /\ event.path # <<>>
  /\ IsLiteral(ConcretePath)
  /\ Registers(Registered, ConcretePath)
  /\ \E i \in DOMAIN Registered :
       ~IsLiteral(Registered[i]) /\ matchPath(Registered[i], ConcretePath).ok

ResolvedKey(key) == Routed /\ match.handler = HandlerAt("flat", "get", key)

\* C15 as stated: with a literal pattern equal to the normalized concrete
\* path and a matching parametric pattern in the same router, the literal
\* route is the one resolved, whatever the declaration order and whatever
\* resource template the event carries.
C15_LiteralAlwaysWins ==
  (pc[1] # "idle" /\ LiteralAndParametric) => ResolvedKey(ConcretePath)

\* C15, amended: in that situation the route resolved is the one registered
\* under the event's normalized resource template when there is one (the
\* literal route when the event carries no template, or the literal as its
\* template), and otherwise the first pattern in declaration order that
\* matches the concrete path.
C15_TemplateThenDeclarationOrder ==
  (pc[1] # "idle" /\ LiteralAndParametric) =>
    IF Registers(Registered, Template)
      THEN ResolvedKey(Template)
      ELSE \E i \in DOMAIN Registered :
             /\ matchPath(Registered[i], ConcretePath).ok
             /\ \A j \in 1..(i - 1) : ~matchPath(Registered[j], ConcretePath).ok
             /\ ResolvedKey(Registered[i])

\* The literal route was resolved although the parametric pattern is
\* declared first: the event carried no resource template.
C15_Witness ==
  /\ pc[1] = "returned"
  /\ LiteralAndParametric
  /\ event.resource = <<>>
  /\ ~IsLiteral(Registered[1])
  /\ ResolvedKey(ConcretePath)
  /\ HandlerInvoked(1)

\* C16: when the only route registered for the verb is a parameter-free
\* pattern p, a request with that verb and concrete path q is routed to p's
\* handler if and only if normalizePath(q) = normalizePath(p), whatever
\* resource template the event carries.
C16_ExactPathRouted ==
  (/\ pc[1] # "idle"
   /\ event.path # <<>>
   /\ Len(Registered) = 1
   /\ IsLiteral(Registered[1])) =>
    (ResolvedKey(Registered[1]) <=> ConcretePath = normalizePath(Registered[1]))

\* The parameters the resolved pattern extracts from the actual path.
Extracted ==
  LET m == matchPath(match.handler.key,
                     normalizePath(IF event.path # <<>> THEN event.path ELSE event.resource))
  IN  IF m.ok THEN m.params ELSE EmptyMap

\* The parameters the trigger supplied upstream; none if the map is null.
Upstream == IF event.pathParameters.present THEN event.pathParameters.map ELSE EmptyMap

\* C17: the parameters handed to the handler, as event.params and as
\* payload.pathParameters alike, are the union of the upstream parameters
\* and the locally extracted ones: an extracted value wins over an upstream
\* value of the same key, upstream-only keys are kept, and a null upstream
\* map leaves just the extracted ones.
C17_ParamsMergedExtractedWins ==
  (Routed /\ HandlerInvoked(1)) =>
    /\ match.pathParameters = match.params
    /\ DOMAIN match.params = DOMAIN Upstream \cup DOMAIN Extracted
    /\ \A n \in DOMAIN Extracted : match.params[n] = Extracted[n]
    /\ \A n \in DOMAIN Upstream \ DOMAIN Extracted : match.params[n] = Upstream[n]
    /\ ~event.pathParameters.present => match.params = Extracted

\* The handler got the extracted x although upstream supplied another x, and
\* the y only upstream supplied.
C17_Witness ==
  /\ Routed
  /\ HandlerInvoked(1)
  /\ "x" \in DOMAIN Extracted
  /\ DOMAIN Upstream = {"x", "y"}
  /\ Extracted["x"] # Upstream["x"]
  /\ match.params["x"] = Extracted["x"]
  /\ match.params["y"] = UpstreamValue

----------------------------------------------------------------------------
(* Properties of trigger detection and of the handler tables by name *)

\* The trigger kinds in the order their markers are tested.
MarkerOrder == <<"eventbridge", "apigateway", "sqs", "lambda">>

\* The raw event carries the structural marker of the kind.
Carries(kind) ==
  CASE kind = "eventbridge" -> event.source = "EVENT_BRIDGE"
    [] kind = "apigateway"  -> event.requestContext /\ event.httpMethod # ""
    [] kind = "sqs"         -> event.Records # <<>> /\ event.Records[1].eventSource = "aws:sqs"
    [] kind = "lambda"      -> event.awsRequestId

\* C18: every event is classified as exactly one trigger kind, the earliest
\* in the order event-bus, HTTP, queue-record, direct-invocation whose
\* marker it carries, and as unknown when it carries none.
C18_EarliestMarkerWins ==
  pc[1] # "idle" =>
    /\ \/ /\ match.type = "unknown"
          /\ \A i \in DOMAIN MarkerOrder : ~Carries(MarkerOrder[i])
       \/ \E i \in DOMAIN MarkerOrder :
            /\ match.type = MarkerOrder[i]
            /\ Carries(MarkerOrder[i])
            /\ \A j \in 1..(i - 1) : ~Carries(MarkerOrder[j])
    /\ match.type = "unknown" => ReturnedWith(400)

\* An event with the markers of all four kinds went the event-bus way.
C18_Witness ==
  /\ pc[1] # "idle"
  /\ \A i \in DOMAIN MarkerOrder : Carries(MarkerOrder[i])
  /\ match.type = "eventbridge"

\* The operation name of an event-bus event, "" if it has none.
OperationName == IF event.detail.present THEN event.detail.operationName ELSE ""

\* The handlers registered for event-bus events.
RegisteredOperations == IF routes.eventbridge.present THEN routes.eventbridge.keys ELSE {}

\* The handler the claim selects: the one registered under the operation
\* name, else the default one, else none ("").
Selected ==
  IF OperationName # "" /\ OperationName \in RegisteredOperations THEN OperationName
  ELSE IF "default" \in RegisteredOperations THEN "default"
  ELSE ""

\* C20: for an event-bus event the handler registered under its operation
\* name is invoked if there is one, otherwise (name unregistered or absent)
\* the default handler if configured, otherwise a not-found result is
\* returned and nothing is invoked; the chosen handler is invoked exactly
\* once, with the event detail as body.
C20_EventBridgeHandlerOrDefault ==
  (pc[1] # "idle" /\ match.type = "eventbridge") =>
    IF Selected = ""
      THEN ReturnedWith(404) /\ ~Invoked
      ELSE /\ match.handler = HandlerAt("eventbridge", "none", <<Selected>>)
           /\ log[1] = <<HandlerEv>>
           /\ match.body = event.detail

----------------------------------------------------------------------------
(* Properties of the queue trigger *)

\* The trailing segment of the first record's queue ARN, "" if it has none.
RoutingKey ==
  IF event.Records[1].eventSourceARN.present
    THEN Join(LastPiece(event.Records[1].eventSourceARN.text))
    ELSE ""

\* The handlers registered for queue events.
RegisteredQueues == IF routes.sqs.present THEN routes.sqs.keys ELSE {}

\* The handler the claim selects: the one registered under the routing key,
\* else the default one, else none ("").
SelectedQueue ==
  IF RoutingKey \in RegisteredQueues THEN RoutingKey
  ELSE IF "default" \in RegisteredQueues THEN "default"
  ELSE ""

\* C21: for a queue event the handler registered under the trailing segment
\* of the source-queue ARN is invoked if there is one, else the default
\* handler, else a not-found result is returned and nothing is invoked; the
\* body handed over is the JSON-decoded record body, or the raw record body
\* under rawBody when it does not decode.
C21_QueueHandlerOrDefault ==
  (pc[1] # "idle" /\ match.type = "sqs") =>
    IF SelectedQueue = ""
      THEN ReturnedWith(404) /\ ~Invoked
      ELSE /\ match.handler = HandlerAt("sqs", "none", <<SelectedQueue>>)
           /\ log[1] = <<HandlerEv>>
           /\ match.body = IF JSONParse(event.Records[1].body).ok
                             THEN JSONParse(event.Records[1].body).value
                             ELSE RawBody(event.Records[1].body)

----------------------------------------------------------------------------
(* Properties of the dispatch result *)

\* The call invoked a handler and returned what came of its answer.
Answered == pc[1] = "returned" /\ match.outcome = "dispatched"

\* a and b differ in their headers at most.
SameButHeaders(a, b) == [a EXCEPT !.headers = NoHeaders] = [b EXCEPT !.headers = NoHeaders]

\* The result is the handler's response with the three CORS headers added:
\* the handler's headers keep their values, the CORS headers it did not set
\* have the configured or default value, nothing else has changed.
CorsAdded ==
  /\ SameButHeaders(result[1], handlerResult)
  /\ result[1].headers.present
  /\ DOMAIN result[1].headers.map = CorsNames \cup DOMAIN handlerResult.headers.map
  /\ \A n \in DOMAIN handlerResult.headers.map :
       result[1].headers.map[n] = handlerResult.headers.map[n]
  /\ \A n \in CorsNames \ DOMAIN handlerResult.headers.map :
       result[1].headers.map[n] = (IF env[n] # "" THEN env[n] ELSE CorsDefault(n))

\* C22 as stated: the result is the handler's result unmodified for the
\* triggers other than HTTP, and for HTTP the handler's response with the
\* CORS headers added, the handler's own headers winning.
C22_CorsAlwaysAdded ==
  Answered =>
    IF match.type = "apigateway" THEN CorsAdded ELSE result[1] = handlerResult

\* C22: the result is the handler's result unmodified for the triggers other
\* than HTTP and for an HTTP handler whose answer is no object; for an HTTP
\* handler answering an object it is that response with the CORS headers
\* added, the handler's own headers winning, all else unchanged.
C22_CorsAddedToObjects ==
  Answered =>
    IF match.type = "apigateway" /\ handlerResult.isObject
      THEN CorsAdded
      ELSE result[1] = handlerResult

\* An HTTP handler set the origin header itself while CORS_ALLOWED_ORIGINS
\* was set, too: the result carries the handler's value and the two others.
C22_Witness ==
  /\ Answered
  /\ match.type = "apigateway"
  /\ handlerResult.headers.present
  /\ OriginHeader \in DOMAIN handlerResult.headers.map
  /\ env[OriginHeader] # ""
  /\ result[1].headers.map[OriginHeader] = "set by handler"
  /\ result[1].headers.map["Access-Control-Allow-Methods"] = "GET,..."

----------------------------------------------------------------------------
(* Properties of the guards (call 1 is a direct call of the middleware) *)

\* The middleware called.
Called(kind) == cfg.globalMw = <<kind>> /\ pc[1] \in Settled

\* The identity's groups hold the role.
HoldsRole(identity, role) ==
  /\ identity.present
  /\ identity.groups # Undefined
  /\ \E i \in DOMAIN identity.groups : identity.groups[i] = role

\* The call let the request through, with the event it was given.
Proceeds == pc[1] = "returned"

\* The call was rejected with a 403 response carrying the code.
RejectedWith(code) ==
  /\ pc[1] = "rejected"
  /\ result[1].statusCode = 403
  /\ result[1].code = code

\* The tenant id is empty or made of blanks only.
IsBlank(id) == \A i \in DOMAIN id : id[i] = " "

\* C23: tenantGuard given no tenant in the request context lets the request
\* proceed if and only if the identity holds PLATFORM_ADMIN; every other
\* identity, an absent one or one with no groups included, is rejected with
\* a 403 carrying TENANT_CONTEXT_MISSING.
C23_NoTenantNeedsBypassRole ==
  (Called("tguard") /\ evT[1] = NoTenant) =>
    IF HoldsRole(req[1].identity, "PLATFORM_ADMIN")
      THEN Proceeds
      ELSE RejectedWith("TENANT_CONTEXT_MISSING")

\* Without tenant, an administrator has passed ...
C23_Witness ==
  /\ Called("tguard")
  /\ evT[1] = NoTenant
  /\ req[1].identity.groups = <<"AGENT", "PLATFORM_ADMIN">>
  /\ Proceeds

C26_NoTenantAlwaysRejected ==
  (Called("crm") /\ evT[1] = NoTenant) => RejectedWith("CRM_ACCESS_DENIED")

\* C26: crmGuard applied to a request whose context carries no tenantInfo
\* rejects with CRM_ACCESS_DENIED every identity that does not hold
\* PLATFORM_ADMIN, and lets an identity holding it through.
C26_NoTenantRejectedUnlessBypass ==
  (Called("crm") /\ evT[1] = NoTenant) =>
    IF HoldsRole(req[1].identity, "PLATFORM_ADMIN")
      THEN Proceeds
      ELSE RejectedWith("CRM_ACCESS_DENIED")

\* crmGuard, run on an event without tenantInfo, rejected a user without
\* groups.
C26_Witness ==
  /\ Called("crm")
  /\ evT[1] = NoTenant
  /\ req[1].identity.present
  /\ req[1].identity.groups = <<>>
  /\ RejectedWith("CRM_ACCESS_DENIED")

----------------------------------------------------------------------------
(* Properties of the guarded pipeline (call 1 goes through dispatchEvent) *)

\* The value counts as the CRM flag enabled.
Enabled(flag) == flag = True \/ flag = <<"true">>

\* The CRM flag the claims of the request carry, Undefined if none.
ClaimedFlag(rq) ==
  IF ~rq.identity.present THEN Undefined
  ELSE IF "custom:hasCRM" \in DOMAIN rq.identity.claims THEN rq.identity.claims["custom:hasCRM"]
  ELSE Undefined

\* C25: for an identity without the bypass role, behind initTenantContext
\* the handler of a route guarded by crmGuard is reached only if the bound
\* tenant carries the CRM flag as enabled, and a request whose claims carry
\* the flag as anything else ('false', empty, missing) is rejected with
\* CRM_ACCESS_DENIED.
C25_CrmFailsClosed ==
  (pc[1] \in Settled /\ ~HoldsRole(req[1].identity, "PLATFORM_ADMIN")) =>
    /\ HandlerInvoked(1) => evT[1] # NoTenant /\ Enabled(evT[1].hasCRM)
    /\ ~Enabled(ClaimedFlag(req[1])) => RejectedWith("CRM_ACCESS_DENIED")

----------------------------------------------------------------------------
(* Properties of tenant resolution (call 1 calls initTenantContext) *)

\* What the claims and the headers of call 1 yield, each taken alone.
FromClaims ==
  IF req[1].identity.present THEN tenantInfoFromClaims(req[1].identity.claims) ELSE NoTenant

FromHeaders == tenantInfoFromHeaders(req[1].headers)

\* The call of initTenantContext by call 1 comes back in this step.
ComesBack == cfg.globalMw = <<"init">> /\ pc[1] = "called" /\ pc'[1] # "called"

\* The event comes back with tenant t in its context, t being what
\* TenantContext holds.
BoundTo(t) == pc'[1] = "returned" /\ evT'[1] = t /\ hostStore' = t

\* C27: initTenantContext binds the tenant the claims yield, even when the
\* headers describe another one; else the tenant the headers yield; else
\* it binds nothing, returns the event as it was and raises no error.
C27_ClaimsThenHeadersThenNothing ==
  [][ComesBack =>
       IF FromClaims # NoTenant THEN BoundTo(FromClaims)
       ELSE IF FromHeaders # NoTenant THEN BoundTo(FromHeaders)
       ELSE pc'[1] = "returned" /\ evT'[1] = evT[1] /\ hostStore' = NoTenant]_vars

\* Claims yield one tenant, headers another, and the claims' one is bound.
C27_Witness ==
  /\ Called("init") /\ pc[1] = "returned"
  /\ FromClaims # NoTenant /\ FromHeaders # NoTenant
  /\ FromClaims.tenantId # FromHeaders.tenantId
  /\ evT[1] = FromClaims /\ hostStore = FromClaims

\* The value the claims hold for a field: that of the prefixed key if the
\* key is there, else that of the unprefixed key, else none.
Field(claims, key) ==
  IF ("custom:" \o key) \in DOMAIN claims THEN claims["custom:" \o key]
  ELSE IF key \in DOMAIN claims THEN claims[key]
  ELSE Undefined

\* The user id the claims hold, sub standing in for a missing one.
UserField(claims) ==
  IF Field(claims, "userId") \notin {Undefined, <<>>} THEN Field(claims, "userId")
  ELSE IF "sub" \in DOMAIN claims THEN claims["sub"]
  ELSE Undefined

Missing(value) == value \in {Undefined, <<>>}

\* C29: tenantInfoFromClaims takes each field from its prefixed key when
\* the key is there and from the unprefixed key otherwise; it yields no
\* tenant if the id, the type, the user id (or sub) or the country is
\* missing or the type is neither ORG nor PERSON, and else the tenant of
\* these values.
C29_PrefixedKeyPreferred ==
  (Called("init") /\ req[1].identity.present /\ req[1].headers = NoClaims) =>
    LET claims == req[1].identity.claims
    IN  IF \/ Missing(Field(claims, "tenantId")) \/ Missing(Field(claims, "tenantType"))
           \/ Missing(UserField(claims)) \/ Missing(Field(claims, "countryCode"))
           \/ Field(claims, "tenantType") \notin {<<"ORG">>, <<"PERSON">>}
          THEN hostStore = NoTenant
          ELSE hostStore = TenantInfo(Field(claims, "tenantId"), Field(claims, "tenantType"),
                                      UserField(claims), Field(claims, "countryCode"),
                                      Field(claims, "hasCRM"))

\* Both keys of the tenant id and of the type are there with different
\* values, and the tenant bound is that of the prefixed ones.
C29_Witness ==
  /\ Called("init") /\ req[1].identity.present /\ req[1].headers = NoClaims
  /\ {"custom:tenantId", "tenantId", "custom:tenantType", "tenantType"}
       \subseteq DOMAIN req[1].identity.claims
  /\ req[1].identity.claims["tenantId"] # req[1].identity.claims["custom:tenantId"]
  /\ hostStore # NoTenant
  /\ hostStore.tenantId = req[1].identity.claims["custom:tenantId"]
  /\ hostStore.tenantType = req[1].identity.claims["custom:tenantType"]

----------------------------------------------------------------------------
(* Properties of tenant resolution by segment (call 1 dispatches the raw
   event through initTenantContext) *)

\* C28: on a route of the private or the backoffice segment the tenant
\* initTenantContext binds is the one the identity's claims yield; the
\* x-tenant-* headers of the request never determine it there.
C28_HeadersNeverBindOnPrivate ==
  (match.segment \in {"private", "backoffice"} /\ evT[1] # NoTenant) =>
    evT[1] = FromClaims

----------------------------------------------------------------------------
(* Properties of identity extraction (call 1 calls extractIdentity) *)

\* The call of extractIdentity has returned.
IdentityExtracted == cfg.globalMw = <<>> /\ pc[1] = "returned" /\ log[1] = <<>>

\* The payload holds at least one recognized identity key.
Plausible(payload) ==
  payload.present /\ DOMAIN payload.map \cap
    {"sub", "userId", "user_id", "email", "cognito:username", "iss", "aud"} # {}

\* A shape of the authorizer with whether it is accepted.
Shape(payload, accepted) == [payload |-> payload, accepted |-> accepted]

\* The payload of the first accepted shape, none if no shape is accepted.
FirstAccepted(shapes) ==
  LET accepted == {k \in DOMAIN shapes : shapes[k].accepted}
  IN  IF accepted = {} THEN NoObject
      ELSE shapes[CHOOSE k \in accepted : \A j \in accepted : k <= j].payload

\* The identity is the one of the claims object, absent without one.
IdentityFrom(payload) ==
  IF ~payload.present THEN ~req[1].identity.present
  ELSE req[1].identity.present /\ req[1].identity.claims = payload.map

\* C30 (as stated): extractIdentity yields the identity of the first
\* shape, in the order nested claims, JWT-nested claims, flat payload,
\* lambda payload, that holds at least one recognized identity key.
C30_FirstPlausibleShape ==
  IdentityExtracted =>
    LET a == event.authorizer
    IN  IdentityFrom(FirstAccepted(<<Shape(a.claims, Plausible(a.claims)),
                                     Shape(a.jwt, Plausible(a.jwt)),
                                     Shape(Object(a.flat), a.present /\ Plausible(Object(a.flat))),
                                     Shape(a.lambda, Plausible(a.lambda))>>))

\* C30 (amended): extractIdentity yields the identity of the first shape,
\* in the order nested claims, JWT-nested claims, lambda payload, flat
\* payload, that is there: a nested shape when it is an object, whatever
\* its keys, the flat payload when it holds at least one recognized
\* identity key; with no such shape there is no identity.
C30_FirstShapeThere ==
  IdentityExtracted =>
    LET a == event.authorizer
    IN  IdentityFrom(FirstAccepted(<<Shape(a.claims, a.claims.present),
                                     Shape(a.jwt, a.jwt.present),
                                     Shape(a.lambda, a.lambda.present),
                                     Shape(Object(a.flat), a.present /\ Plausible(Object(a.flat)))>>))

\* An authorizer with a lambda payload and identity keys of its own, and
\* nothing else: the identity is that of the lambda payload.
C30_Witness ==
  /\ IdentityExtracted
  /\ ~event.authorizer.claims.present /\ ~event.authorizer.jwt.present
  /\ event.authorizer.lambda.present /\ Plausible(Object(event.authorizer.flat))
  /\ req[1].identity.present
  /\ req[1].identity.claims = event.authorizer.lambda.map
  /\ req[1].identity.claims # event.authorizer.flat

----------------------------------------------------------------------------
(* Properties of the bearer-token fallback (call 1 dispatches the raw event) *)

\* The authorizer of the event has none of the recognized shapes.
NoAuthorizerShape == ~extractClaims(event.authorizer).present

\* C31: when the configuration does not enable autoExtractIdentity, the
\* identity of an HTTP request is the one of its authorizer: without a
\* recognized authorizer shape there is none, whatever the Authorization
\* header holds, and a route of a non-public segment with an expected
\* issuer answers forbidden without invoking anything.
C31_BearerFallbackOffByDefault ==
  (autoExtractIdentity # True /\ pc[1] # "idle") =>
    /\ req[1].identity = IdentityOf(extractClaims(event.authorizer))
    /\ NoAuthorizerShape =>
         /\ ~req[1].identity.present
         /\ (Routed /\ IssuerRequired) =>
              pc[1] = "returned" /\ ReturnedWith(403) /\ ~Invoked

\* No authorizer, a well-formed bearer token of the expected issuer, a
\* private route, and the answer is forbidden.
C31_Witness ==
  /\ autoExtractIdentity = Undefined
  /\ ~event.authorizer.present
  /\ Truthy(authHeaderOf(event.headers))
  /\ IssuedBy(IdentityOf(decodeJwtFromHeader(authHeaderOf(event.headers))), PoolA)
  /\ Routed /\ match.segment = "private" /\ IssuerRequired
  /\ pc[1] = "returned" /\ ReturnedWith(403) /\ ~Invoked

----------------------------------------------------------------------------
(* Properties of failures and termination (call 1 goes through dispatchEvent
   with middleware and a handler that may fail or never settle) *)

\* The middleware whose rejection is logged at position k of call 1.
RejectedKind(k) == StageList(cfg, log[1][k].st)[log[1][k].i]

\* A middleware that threw an error was awaited by call 1.
MiddlewareFailed ==
  \E k \in DOMAIN log[1] : log[1][k].e = "reject" /\ RejectedKind(k) = "fails"

\* No middleware and no handler is called twice, and nothing is called
\* after a rejection.
NothingRerun ==
  /\ \A j, k \in DOMAIN log[1] :
       (j < k /\ log[1][j].e \in {"start", "handler"}) => log[1][j] # log[1][k]
  /\ \A k \in DOMAIN log[1] : log[1][k].e = "reject" => k = Len(log[1])

\* C32: an error thrown by a middleware or by the handler is what the
\* dispatch rejects with, unchanged; no response is put in its place and
\* no middleware or handler is called again.
C32_ErrorsReachCaller ==
  /\ NothingRerun
  /\ MiddlewareFailed =>
       /\ pc[1] = "rejected"
       /\ result[1] = Error("Error: middleware failed")
       /\ ~HandlerInvoked(1)
  /\ (pc[1] \in Settled /\ HandlerInvoked(1) /\ handlerResult.how = "rejected") =>
       /\ pc[1] = "rejected"
       /\ result[1] = handlerResult

\* The second middleware threw after the first had passed, and the
\* dispatch rejected with the error.
C32_Witness ==
  /\ cfg.globalMw = <<"user", "fails">>
  /\ MiddlewareFailed
  /\ pc[1] = "rejected"
  /\ result[1] = Error("Error: middleware failed")
  /\ Len(log[1]) = 4

\* The dispatch awaits a middleware or a handler it invoked and whose
\* promise never settles.
AwaitsForever ==
  \/ pc[1] = "mw" /\ pending[1].status = "pending"
  \/ pc[1] \in {"handler", "handlerDone"} /\ handlerResult.how = "pending"

\* C36: a dispatch eventually settles unless it awaits a middleware or a
\* handler that never settles, and one that does never settles.
C36_SettlesUnlessAwaitingForever ==
  /\ <>(pc[1] \in Settled \/ AwaitsForever)
  /\ [](AwaitsForever => [](pc[1] \notin Settled))

\* Two middleware and the handler were run and the dispatch returned.
C36_Witness ==
  /\ Len(cfg.globalMw) + Len(cfg.segMw) = 2
  /\ HandlerInvoked(1)
  /\ pc[1] = "returned"
  /\ result[1].statusCode = 200

----------------------------------------------------------------------------
(* Properties of tenant propagation (function 1 invokes function 2) *)

\* C33: the TenantInfo read back from the headers written for a
\* TenantInfo is equal to it.
C33_HeadersRoundTrip == pc[2] = "returned" => evT[2] = evT[1]


----------------------------------------------------------------------------
(* Properties of the number of handler invocations *)

\* How often dispatch r invoked a registered handler.
HandlerRuns(r) == Cardinality({k \in DOMAIN log[r] : log[r][k] = HandlerEv})

\* The dispatch ended with a preflight, not-found, issuer-validation or
\* unknown-trigger outcome, or a middleware rejected.
EndedEarly ==
  \/ match.outcome \in {"preflight", "notFound", "handlerNotFound", "forbidden", "badRequest"}
  \/ WasRejected(1)

\* C34: a dispatch invokes at most one handler, at most once; once it has
\* settled it has invoked one exactly once, unless it ended with a
\* preflight, not-found, issuer-validation, unknown-trigger or
\* middleware-rejection outcome.
C34_OneHandlerOnce ==
  /\ HandlerRuns(1) <= 1
  /\ pc[1] \in Settled => (HandlerRuns(1) = 1 \/ EndedEarly)

----------------------------------------------------------------------------
(* Properties of the route a handler is invoked for *)

\* The normalized concrete path the parameters are extracted from.
ActualPath == normalizePath(IF event.path # <<>> THEN event.path ELSE event.resource)

\* The parameter names a pattern declares.
Declared(pattern) ==
  {NameOf(pattern[i]) : i \in {j \in DOMAIN pattern : pattern[j] \in Placeholders}}

\* The pattern, anchored at both ends, matches the path.
FullyMatches(pattern, path) == Matches(pattern, path) # {}

\* params gives every placeholder of the pattern the part of the path that
\* stands in its place.
Fills(params, pattern, path) ==
  \E ends \in Matches(pattern, path) :
    \A i \in DOMAIN pattern :
      pattern[i] \in Placeholders =>
        params[NameOf(pattern[i])] = SubSeq(path, IF i = 1 THEN 1 ELSE ends[i - 1] + 1, ends[i])

\* The handler of a flat route was invoked.
RouteInvoked == Routed /\ HandlerInvoked(1) /\ match.handler.table = "flat"

\* C35 as stated: the pattern of an invoked route fully matches the
\* normalized concrete path, and without upstream parameters the handler's
\* params are exactly the declared names, each valued by its path segment.
C35_InvokedPatternMatchesPath ==
  RouteInvoked =>
    /\ FullyMatches(match.handler.key, ActualPath)
    /\ ~event.pathParameters.present =>
         /\ DOMAIN match.params = Declared(match.handler.key)
         /\ Fills(match.params, match.handler.key, ActualPath)

\* C35, amended: the pattern of an invoked route fully matches the
\* normalized concrete path or is the event's normalized resource template;
\* without upstream parameters the handler's params are exactly the
\* declared names, each valued by its path segment, when the pattern
\* matches the path, and empty when it does not.
C35_MatchesPathOrIsTemplate ==
  RouteInvoked =>
    /\ FullyMatches(match.handler.key, ActualPath) \/ match.handler.key = Template
    /\ ~event.pathParameters.present =>
         IF FullyMatches(match.handler.key, ActualPath)
           THEN /\ DOMAIN match.params = Declared(match.handler.key)
                /\ Fills(match.params, match.handler.key, ActualPath)
           ELSE match.params = EmptyMap

\* The route /{x} was resolved by matching the path /aa, under another
\* template, and its handler got x = aa.
C35_Witness ==
  /\ RouteInvoked
  /\ ~event.pathParameters.present
  /\ match.handler.key = <<Slash, "{x}">>
  /\ match.handler.key # Template
  /\ ActualPath = <<Slash, "a", "a">>
  /\ match.params = [n \in {"x"} |-> <<"a", "a">>]

----------------------------------------------------------------------------
(* Properties of the two tenant carriers (call 1 calls initTenantContext) *)

\* TenantContext, which held no tenant when initTenantContext was called,
\* holds one as the call comes back: the call bound it.
BindsTenant == hostStore' # NoTenant

\* C37 as stated: the returned request carries context.tenantInfo if and
\* only if the call bound a tenant in TenantContext, and then both hold the
\* same value; a call that resolves no tenant changes neither the request
\* nor the store.
C37_CarriersInStep ==
  [][ComesBack =>
       /\ evT'[1] # NoTenant <=> BindsTenant
       /\ BindsTenant => evT'[1] = hostStore'
       /\ Resolved(req[1]) = NoTenant => evT'[1] = evT[1] /\ ~BindsTenant]_vars

\* C37, amended: a call that binds a tenant returns the request with that
\* same tenant as context.tenantInfo; a call that resolves no tenant binds
\* none and returns the request as it was, with the context.tenantInfo it
\* arrived with, if any; so for a request that arrives without one the
\* returned request carries context.tenantInfo if and only if the call
\* bound a tenant.
C37_InStepUnlessCarriedBefore ==
  [][ComesBack =>
       /\ BindsTenant => evT'[1] = hostStore'
       /\ BindsTenant <=> Resolved(req[1]) # NoTenant
       /\ Resolved(req[1]) = NoTenant => evT'[1] = evT[1] /\ ~BindsTenant
       /\ evT[1] = NoTenant => (evT'[1] # NoTenant <=> BindsTenant)]_vars

\* Only the headers yield a tenant, and both carriers hold it.
C37_Witness ==
  /\ Called("init") /\ pc[1] = "returned"
  /\ FromClaims = NoTenant /\ FromHeaders # NoTenant
  /\ evT[1] = FromHeaders /\ hostStore = evT[1]

----------------------------------------------------------------------------
(* Properties of queue batches *)

\* The batch cut down to its first record.
FirstRecordAlone == [event EXCEPT !.Records = <<event.Records[1]>>]

\* The decoded body of a record, the raw one under rawBody if it does not
\* decode.
Decoded(body) == IF JSONParse(body).ok THEN JSONParse(body).value ELSE RawBody(body)

\* C38: one dispatch of a queue batch invokes at most one handler, once; the
\* handler chosen is registered under the queue name of the first record or
\* as default and is handed the body of the first record; and the whole
\* resolution is the one of the batch cut down to its first record.
C38_FirstRecordDecides ==
  (pc[1] # "idle" /\ match.type = "sqs") =>
    /\ HandlerRuns(1) <= 1
    /\ match.outcome = "dispatched" =>
         /\ match.handler.key \in {<<RoutingKey>>, <<"default">>}
         /\ match.body = Decoded(event.Records[1].body)
         /\ pc[1] \in Settled => HandlerRuns(1) = 1
    /\ match = dispatchEvent(FirstRecordAlone, routes, userPools, cfg, req[1], NoTenant).match

\* A batch of three records of other queues and bodies than the first: the
\* handler of the first record's queue ran once although those of the
\* other queues are registered too.
C38_Witness ==
  /\ pc[1] = "returned"
  /\ Len(event.Records) = 3
  /\ \A k \in 2..3 : /\ event.Records[k].eventSourceARN # event.Records[1].eventSourceARN
                     /\ event.Records[k].body # event.Records[1].body
  /\ routes.sqs.keys = {"q", "r", "default"}
  /\ match.handler = HandlerAt("sqs", "none", <<"r">>)
  /\ RoutingKey = "r"
  /\ HandlerRuns(1) = 1

====
